---- MODULE Spec2Model ----
(***************************************************************************)
(* Local-first flight store and its synchronisation with the remote        *)
(* datastore: useFlightStore (local collection), useSupabaseSync (the      *)
(* coordinator: connectivity, debounced push, initial pull, force/retry    *)
(* sync), useDebounce (the timer) and SupabaseService (the adapter).       *)
(*                                                                         *)
(* One action is one task of the UI event loop: a handler runs from its    *)
(* entry (or from the resolution of the promise it awaits) to its next     *)
(* network await, and the React state updates it makes are committed as    *)
(* one render.  The auto-save effect of a render runs as the next step,    *)
(* before any other task (effectDue).  Optional values are sets: {} is     *)
(* undefined/null, {v} is the value v.                                     *)
(***************************************************************************)
EXTENDS Integers, Sequences, FiniteSets, TLC

VARIABLES
  flights,            \* useFlightStore: state.flights (array of Flight)
  nextId,             \* source of fresh ids (uuidv4)
  userId,             \* useSupabaseSync(userId): "" while the user is unknown
  isMounted,          \* useSupabaseSync: isMounted.current
  connectionStatus,   \* useSupabaseSync: connectionStatus
  syncState,          \* useSupabaseSync: syncState
  loading,            \* useSupabaseSync: loading
  syncInProgress,     \* useSupabaseSync: syncInProgress.current
  pendingChangesRef,  \* useSupabaseSync: pendingChangesRef.current
  effectDue,          \* a dependency of the auto-save effect changed in the last render
  timer,              \* useDebounce: timeoutRef (the pending timeout and its arguments)
  checks,             \* checkConnection calls in flight, with their continuation
  calls,              \* loadUserData / saveUserData calls in flight
  fastOps,            \* single-record adapter calls in flight (addFlight/deleteFlight/updateFlight)
  remote,             \* the remote table "flights": a set of rows, primary key id
  now,                \* the clock (saturates at MaxTime)
  sinceMutation,      \* time elapsed since the last local mutation, while a timeout is pending
  muts,               \* number of local mutations made so far
  mutsSince,          \* local mutations made since the start of the last successful push
  dirty,              \* a local mutation was made after the payload of the last started push was taken
  burstN,             \* mutations of the current burst (Online, nothing in flight)
  offlineN,           \* mutations made while Offline and not yet followed by a push or an Online mutation
  adapter,            \* the last call of SupabaseService made on its own: its arguments, the
                      \* table before it, the requests it issued and how it ended
  storeState,         \* the store's isLoading, error and selectedFlight
  storeCall,          \* the last call of the store made on its own: its arguments, the
                      \* day, the collection and the state before it and the error it threw
  localStorage,       \* the browser's localStorage: the keys set and their values
  launches,           \* the launches of the application so far: for each the useUser that
                      \* ran, the origin kind and the user id it produced
  pulls,              \* number of loadUserData calls issued so far
  faults,             \* failing network outcomes and connectivity re-checks so far
  ev                  \* the step that produced this state: handler, outcome of
                      \* saveToSupabase / loadFromSupabase in it, the call concerned, and for
                      \* the timer the time since the last mutation and the size of the burst

vars == <<flights, nextId, userId, isMounted, connectionStatus, syncState, loading,
          syncInProgress, pendingChangesRef, effectDue, timer, checks, calls, fastOps,
          remote, now, sinceMutation, muts, mutsSince, dirty, burstN, offlineN, pulls, faults, ev,
          adapter, storeState, storeCall, localStorage, launches>>

(* ------------------------------- bounds -------------------------------- *)
MaxMutations == 2
MaxFaults == 1
MaxTime == 1
MaxFastOps == 1
MaxStoreAdds == 2
MaxLaunches == 2

(* -------------------------- program constants -------------------------- *)
DebounceDelay == 3

NoUser == ""
OwnerA == "user-a"
OwnerB == "user-b"

\* the errorMessage values of syncState, by the place that sets them
MsgSync == "sync-failed"
MsgLoad == "load-failed"
MsgOfflineMode == "offline-mode"
MsgNoConnection == "no-connection"

(* ------------------------------- helpers ------------------------------- *)
Min(a, b) == IF a < b THEN a ELSE b

RemoveAt(s, i) == [j \in 1..(Len(s) - 1) |-> IF j < i THEN s[j] ELSE s[j + 1]]

\* A text is a sequence of one-character strings.
LowerCase == <<"a", "b", "c", "d", "e", "f", "g", "h", "i", "j", "k", "l", "m",
               "n", "o", "p", "q", "r", "s", "t", "u", "v", "w", "x", "y", "z">>

UpperCase == <<"A", "B", "C", "D", "E", "F", "G", "H", "I", "J", "K", "L", "M",
               "N", "O", "P", "Q", "R", "S", "T", "U", "V", "W", "X", "Y", "Z">>

Digits == <<"0", "1", "2", "3", "4", "5", "6", "7", "8", "9">>

WhiteSpace == {" ", "\t", "\n"}

\* String.prototype.toUpperCase
ToUpperCase(s) ==
  [i \in DOMAIN s |->
     IF \E k \in DOMAIN LowerCase : LowerCase[k] = s[i]
     THEN UpperCase[CHOOSE k \in DOMAIN LowerCase : LowerCase[k] = s[i]]
     ELSE s[i]]

TrimStart(s) ==
  LET kept == {i \in DOMAIN s : s[i] \notin WhiteSpace}
  IN IF kept = {} THEN <<>>
     ELSE SubSeq(s, CHOOSE i \in kept : \A j \in kept : i <= j, Len(s))

\* String.prototype.trim
Trim(s) ==
  LET kept == {i \in DOMAIN s : s[i] \notin WhiteSpace}
  IN IF kept = {} THEN <<>>
     ELSE SubSeq(s, CHOOSE i \in kept : \A j \in kept : i <= j,
                    CHOOSE i \in kept : \A j \in kept : i >= j)

DigitValue(c) == (CHOOSE k \in DOMAIN Digits : Digits[k] = c) - 1

IsDigit(c) == \E k \in DOMAIN Digits : Digits[k] = c

RECURSIVE DecimalValue(_)
DecimalValue(s) ==
  IF s = <<>> THEN 0
  ELSE 10 * DecimalValue(SubSeq(s, 1, Len(s) - 1)) + DigitValue(s[Len(s)])

\* parseInt(text) in base 10: leading white space is skipped, then a sign, then
\* the longest run of digits is read; no digit there gives NaN, written {}
parseInt(s) ==
  LET first == {i \in DOMAIN s : s[i] \notin WhiteSpace}
      from == IF first = {} THEN Len(s) + 1
              ELSE CHOOSE i \in first : \A j \in first : i <= j
      signed == from <= Len(s) /\ s[from] \in {"-", "+"}
      start == IF signed THEN from + 1 ELSE from
      stop == CHOOSE e \in (start - 1)..Len(s) :
                /\ \A i \in start..e : IsDigit(s[i])
                /\ e < Len(s) => ~IsDigit(s[e + 1])
      value == DecimalValue(SubSeq(s, start, stop))
  IN IF stop < start THEN {}
     ELSE IF signed /\ s[from] = "-" THEN {0 - value} ELSE {value}

\* Number.prototype.toString of a natural number
RECURSIVE toString(_)
toString(n) ==
  IF n < 10 THEN <<Digits[n + 1]>>
  ELSE Append(toString(n \div 10), Digits[(n % 10) + 1])

\* text || undefined
OrUndefined(text) == IF text = <<>> THEN {} ELSE {text}

\* x || null  /  x || undefined  for an optional number: 0 is falsy
OrAbsent(opt) == IF opt = {0} THEN {} ELSE opt

IdsOf(seq) == {seq[i].id : i \in DOMAIN seq}

(* --------------------------- record conversion -------------------------- *)
\* what App.handleAddFlight hands to the coordinator (a Flight without id)
FlightInputs ==
  { [flightNumber |-> <<"t", "k", "1">>, distance |-> {0}, class |-> {"business"}] }

\* Partial<Flight> values given to updateFlight
FlightUpdates == { [distance |-> {7}] }

\* { ...flight, ...updates }
Merge(flight, updates) ==
  [f \in DOMAIN flight \cup DOMAIN updates |->
     IF f \in DOMAIN updates THEN updates[f] ELSE flight[f]]

\* the FlightFormData the coordinator's addFlight builds from its argument:
\* distance?.toString() || '', the optional texts || ''
toFormData(flightData) ==
  [f \in DOMAIN flightData |->
     CASE f = "distance" ->
            IF flightData[f] = {} THEN <<>>
            ELSE toString(CHOOSE n \in flightData[f] : TRUE)
       [] f = "class" ->
            IF flightData[f] \ {""} = {} THEN "economy"
            ELSE CHOOSE c \in flightData[f] : TRUE
       [] OTHER -> flightData[f]]

\* the Flight (without id and created_at) of a form, field by field for the
\* fields the form carries; a distance that parseInt cannot read is never
\* converted, validateFlightData having rejected the form before
convertFormToFlight(form, t) ==
  [f \in DOMAIN form \cup {"updated_at"} |->
     CASE f = "updated_at" -> {t}
       [] f \in {"airline", "origin", "destination"} -> Trim(form[f])
       [] f = "flightNumber" -> ToUpperCase(Trim(form[f]))
       [] f \in {"aircraft", "duration", "note"} -> OrUndefined(Trim(form[f]))
       [] f \in {"registration", "seat"} -> OrUndefined(ToUpperCase(Trim(form[f])))
       [] f = "distance" -> IF form[f] # <<>> THEN parseInt(form[f]) ELSE {}
       [] f = "class" -> {form[f]}
       [] OTHER -> form[f]]

ValidClasses == {"economy", "premium_economy", "business", "first"}

ValidReasons == {"business", "leisure", "personal", "connecting", "other"}

\* flight.class, flight.reason: undefined for a record without the property
Property(flight, name) == IF name \in DOMAIN flight THEN flight[name] ELSE {}

\* text || null  /  text || undefined  for an optional string: '' is falsy
TextOrAbsent(opt) == opt \ {""}

\* the fields a row and a Flight hold under the same name: the texts that are
\* always there, and the optional texts
PlainFields == {"date", "airline", "origin", "destination"}

OptionalFields == {"aircraft", "registration", "seat", "duration", "note"}

\* text || null  /  text || undefined  for an optional text of the store
EmptyIsAbsent(opt) == opt \ {<<>>}

\* the columns of the fields the record carries besides those every record of
\* the model has
SameNameFields(record) ==
  [f \in DOMAIN record \cap (PlainFields \cup OptionalFields) |->
     IF f \in OptionalFields THEN EmptyIsAbsent(record[f]) ELSE record[f]]

toSupabase(flight, owner) ==
  [id |-> flight.id,
   user_id |-> owner,
   flight_number |-> flight.flightNumber,
   distance |-> OrAbsent(flight.distance),
   class |-> TextOrAbsent(Property(flight, "class")),
   reason |-> TextOrAbsent(Property(flight, "reason")),
   created_at |-> flight.created_at,
   updated_at |-> flight.updated_at] @@ SameNameFields(flight)

\* fromSupabase of the class at lines 733-1085
fromSupabase(row) ==
  [id |-> row.id,
   flightNumber |-> row.flight_number,
   distance |-> OrAbsent(row.distance),
   class |-> IF row.class \cap ValidClasses # {} THEN row.class ELSE {"economy"},
   reason |-> IF row.reason \cap ValidReasons # {} THEN row.reason ELSE {},
   created_at |-> row.created_at,
   updated_at |-> row.updated_at] @@ SameNameFields(row)

\* convertFromSupabaseFormat of the class at lines 202-700
convertFromSupabaseFormat(row) ==
  [id |-> row.id,
   flightNumber |-> row.flight_number,
   distance |-> OrAbsent(row.distance),
   class |-> IF row.class \cap ValidClasses # {} THEN row.class ELSE {},
   reason |-> TextOrAbsent(row.reason),
   created_at |-> row.created_at,
   updated_at |-> row.updated_at,
   supabase_created_at |-> row.created_at]

(* ----------------------------- remote table ----------------------------- *)
StaleRowA == [id |-> 90, user_id |-> OwnerA, flight_number |-> <<"O", "L", "D">>, distance |-> {},
              class |-> {}, reason |-> {}, created_at |-> 0, updated_at |-> {}]

RowB == [id |-> 95, user_id |-> OwnerB, flight_number |-> <<"B", "B", "B">>, distance |-> {},
         class |-> {}, reason |-> {}, created_at |-> 0, updated_at |-> {}]

PriorRemotes == {{StaleRowA, RowB}}

RowsOf(table, owner) == {r \in table : r.user_id = owner}

\* SupabaseService.loadUserData: the rows of the owner, each converted to a Flight
loadUserData(table, owner) == {fromSupabase(r) : r \in RowsOf(table, owner)}

\* upsert(rows, { onConflict: 'id' }): insert, or replace the row with that id
Upsert(table, rows) ==
  {r \in table : r.id \notin {x.id : x \in rows}} \cup rows

\* the id of the row the coordinator's addFlight builds for the adapter:
\* `flight_${Date.now()}_${random}`, never an id of the local store
FastPathId(localId) == localId + 50

(* --------------------------- SupabaseService --------------------------- *)
\* a user id that is not of UUID format: 'anon_' + uuid of useUser
OwnerBad == "anon_1"

\* validateUUID: the id matches the UUID pattern
validateUUID(userId_) == userId_ \in {OwnerA, OwnerB}

\* how a call of the adapter ended: the table after it, the number of requests
\* it sent, the error it threw ("none": it resolved) and the flights it returned
Result(table, requests, error, returned) ==
  [table |-> table, requests |-> requests, error |-> error, returned |-> returned]

\* loadUserData(userId); ok: the select succeeds
loadUserDataCall(table, owner, ok) ==
  IF ~validateUUID(owner) THEN Result(table, 0, "format", {})
  ELSE IF ~ok THEN Result(table, 1, "database", {})
  ELSE Result(table, 1, "none", loadUserData(table, owner))

\* loadUserData of the class at lines 202-700: the same requests inside try,
\* the rows converted by convertFromSupabaseFormat, and a catch that returns
\* empty data for every error
loadUserDataCatchAll(table, owner, ok) ==
  IF ~validateUUID(owner) THEN Result(table, 0, "none", {})
  ELSE IF ~ok THEN Result(table, 1, "none", {})
  ELSE Result(table, 1, "none", {convertFromSupabaseFormat(r) : r \in RowsOf(table, owner)})

\* saveUserData(userId, { flights: snap }); upOk, selOk, delOk: the upsert, the
\* select of the remote ids and the delete of the stale ids succeed
saveUserDataCall(table, owner, snap, upOk, selOk, delOk) ==
  IF ~validateUUID(owner) THEN Result(table, 0, "format", {})
  ELSE IF snap = <<>> THEN Result(table, 0, "none", {})
  ELSE IF ~upOk THEN Result(table, 1, "sync", {})
  ELSE LET up == Upsert(table, {toSupabase(snap[k], owner) : k \in DOMAIN snap})
           idsToDelete == {r.id : r \in RowsOf(up, owner)} \ IdsOf(snap)
       IN IF ~selOk \/ idsToDelete = {} THEN Result(up, 2, "none", {})
          ELSE IF ~delOk THEN Result(up, 3, "none", {})
          ELSE Result({r \in up : r.id \notin idsToDelete}, 3, "none", {})

\* saveUserData of the class at lines 202-700: delete the rows of the user (an
\* error is logged only), then insert the payload (an error is thrown)
saveUserDataDeleteInsert(table, owner, snap, delOk, insOk) ==
  IF ~validateUUID(owner) THEN Result(table, 0, "format", {})
  ELSE LET kept == IF delOk THEN table \ RowsOf(table, owner) ELSE table
           rows == {toSupabase(snap[k], owner) : k \in DOMAIN snap}
       IN IF snap = <<>> THEN Result(kept, 1, "none", {})
          ELSE IF ~insOk \/ IdsOf(snap) \cap {r.id : r \in kept} # {}
          THEN Result(kept, 2, "insert", {})
          ELSE Result(kept \cup rows, 2, "none", {})

\* addFlight(userId, flight): insert, an error for an existing primary key
addFlightCall(table, owner, flight, ok) ==
  IF ~validateUUID(owner) THEN Result(table, 0, "format", {})
  ELSE IF ~ok \/ flight.id \in {r.id : r \in table} THEN Result(table, 1, "insert", {})
  ELSE Result(table \cup {toSupabase(flight, owner)}, 1, "none", {})

\* deleteFlight(userId, flightId): delete().eq('user_id', userId).eq('id', flightId)
deleteFlightCall(table, owner, flightId, ok) ==
  IF ~validateUUID(owner) THEN Result(table, 0, "format", {})
  ELSE IF ~ok THEN Result(table, 1, "delete", {})
  ELSE Result({r \in table : ~(r.user_id = owner /\ r.id = flightId)}, 1, "none", {})

\* updateFlight(userId, flightId, updates): getFlightById, then the upsert of
\* { ...currentFlight, ...updates, updated_at } (t: the time of the call)
updateFlightCall(table, owner, flightId, updates, t, getOk, upOk) ==
  LET found == {r \in table : r.user_id = owner /\ r.id = flightId}
  IN IF ~validateUUID(owner) THEN Result(table, 0, "format", {})
     ELSE IF ~getOk \/ found = {} THEN Result(table, 1, "notFound", {})
     ELSE IF ~upOk THEN Result(table, 2, "update", {})
     ELSE Result(Upsert(table, {toSupabase(Merge(fromSupabase(CHOOSE r \in found : TRUE),
                                                 Merge(updates, [updated_at |-> {t}])),
                                           owner)}),
                 2, "none", {})

(* ------------------------- coordinator structures ----------------------- *)
\* no call of the adapter on its own was made
NoAdapterCall ==
  [op |-> "none", variant |-> "upsert", owner |-> NoUser, arg |-> <<>>, before |-> {},
   requests |-> 0, error |-> "none", returned |-> {}, repeat |-> FALSE]

InitialSyncState ==
  [isSyncing |-> FALSE, lastSync |-> {}, pendingChanges |-> 0,
   hasError |-> FALSE, errorMessage |-> {}]

NoTimer == [set |-> FALSE, left |-> 0, owner |-> NoUser, snap |-> <<>>]

NoCall == [kind |-> "none", pc |-> "none", by |-> "none", owner |-> NoUser, snap |-> <<>>,
           m0 |-> 0, stale |-> {}, pend0 |-> 0, sync0 |-> {}]

\* a loadUserData ("pull") or saveUserData ("push") call, with the caller that
\* awaits loadFromSupabase / saveToSupabase and the values of mutsSince,
\* pendingChanges and lastSync of the moment it starts
NewCall(kind, pc, by, owner, snap) ==
  [kind |-> kind, pc |-> pc, by |-> by, owner |-> owner, snap |-> snap, m0 |-> mutsSince,
   stale |-> {}, pend0 |-> syncState.pendingChanges, sync0 |-> syncState.lastSync]

\* what becomes of the error that loadFromSupabase / saveToSupabase rethrows:
\* initialize and retrySync catch it, forceSync passes it to its caller, the
\* timeout callback of useDebounce drops the rejected promise
ThrowHandled(by) == by \in {"initialize", "retrySync", "forceSync"}

Event(op, outcome, call) ==
  [op |-> op, save |-> outcome, call |-> call, elapsed |-> 0, burst |-> 0]

\* a step whose record no property needs
Other == Event("other", "none", NoCall)

store == <<flights, nextId>>

\* the guard of the auto-save effect, on the state of the next render
EffectGated ==
  userId' = NoUser \/ syncState'.isSyncing \/ connectionStatus' # "online"

\* variant: the effect depends on [userId, localFlights] only
EffectRunsOnData(flightsTouched) ==
  /\ isMounted'
  /\ flightsTouched \/ userId' # userId
  /\ ~EffectGated

\* a dependency of the auto-save effect [userId, localFlights, syncState.isSyncing,
\* connectionStatus] differs between this render and the next, and the effect does
\* not return at its guard (a run that returns at the guard changes nothing)
EffectRuns(flightsTouched) ==
  /\ isMounted'
  /\ \/ flightsTouched
     \/ userId' # userId
     \/ syncState'.isSyncing # syncState.isSyncing
     \/ connectionStatus' # connectionStatus
  /\ ~EffectGated

\* a mutation continues the burst when it is made Online with nothing in flight
InBurst ==
  /\ isMounted
  /\ userId # NoUser
  /\ connectionStatus = "online"
  /\ ~syncState.isSyncing
  /\ calls = <<>>

\* useFlightStore: isLoading: false, error: null, selectedFlight: null
InitialStoreState == [isLoading |-> FALSE, error |-> {}, selectedFlight |-> {}]

\* no call of the store on its own was made
NoStoreCall ==
  [op |-> "none", arg |-> <<>>, at |-> 0, before |-> <<>>, state0 |-> InitialStoreState,
   thrown |-> {}, returned |-> <<>>]

\* the hook and the store after construction
HookInit ==
  /\ flights = <<>>
  /\ nextId = 1
  /\ userId = NoUser
  /\ isMounted = TRUE
  /\ connectionStatus = "checking"
  /\ syncState = InitialSyncState
  /\ loading = TRUE
  /\ syncInProgress = FALSE
  /\ pendingChangesRef = 0
  /\ effectDue = FALSE
  /\ timer = NoTimer
  /\ checks = <<>>
  /\ calls = <<>>
  /\ fastOps = <<>>
  /\ now = 0
  /\ sinceMutation = 0
  /\ muts = 0
  /\ mutsSince = 0
  /\ dirty = FALSE
  /\ burstN = 0
  /\ offlineN = 0
  /\ pulls = 0
  /\ faults = 0
  /\ ev = Event("mount", "none", NoCall)
  /\ adapter = NoAdapterCall
  /\ storeState = InitialStoreState
  /\ storeCall = NoStoreCall
  /\ localStorage = {}
  /\ launches = <<>>

Init == HookInit /\ remote \in PriorRemotes

(* ------------------------------ useDebounce ----------------------------- *)
\* variant: a pending timeout is kept and the new call is lost
debouncedCallbackKeepsPending(pending, owner, snap) ==
  IF pending.set
  THEN pending
  ELSE [set |-> TRUE, left |-> DebounceDelay, owner |-> owner, snap |-> snap]

\* debouncedCallback(...args): clearTimeout of the pending timeout, then setTimeout
debouncedCallback(pending, owner, snap) ==
  [set |-> TRUE, left |-> DebounceDelay, owner |-> owner, snap |-> snap]

(* --------------------------- saveToSupabase ----------------------------- *)
\* saveUserData returns before any network call for an empty collection
ReturnsAtOnce(snap) == snap = <<>>

\* variant: the success branch leaves the pending counter alone
SaveSucceededKeepsPending(call) ==
  /\ pendingChangesRef' = pendingChangesRef
  /\ syncState' = IF isMounted
                  THEN [syncState EXCEPT !.isSyncing = FALSE, !.lastSync = {now},
                                         !.hasError = FALSE, !.errorMessage = {}]
                  ELSE syncState
  /\ syncInProgress' = IF isMounted THEN FALSE ELSE TRUE
  /\ mutsSince' = mutsSince - call.m0

\* the state updates of the success branch of saveToSupabase
SaveSucceeded(call) ==
  /\ pendingChangesRef' = IF isMounted THEN 0 ELSE pendingChangesRef
  /\ syncState' = IF isMounted
                  THEN [isSyncing |-> FALSE, lastSync |-> {now}, pendingChanges |-> 0,
                        hasError |-> FALSE, errorMessage |-> {}]
                  ELSE syncState
  /\ syncInProgress' = IF isMounted THEN FALSE ELSE TRUE
  /\ mutsSince' = mutsSince - call.m0

\* variant: the catch branch resets the pending counter
SaveFailedResetsPending(call) ==
  /\ pendingChangesRef' = IF isMounted THEN 0 ELSE pendingChangesRef
  /\ syncState' = IF isMounted
                  THEN [syncState EXCEPT !.isSyncing = FALSE, !.hasError = TRUE,
                                         !.errorMessage = {MsgSync}, !.pendingChanges = 0]
                  ELSE syncState
  /\ syncInProgress' = IF isMounted THEN FALSE ELSE TRUE
  /\ mutsSince' = mutsSince

\* variant: the finally block does not release the guard after a failure
SaveFailedKeepsGuard(call) ==
  /\ pendingChangesRef' = pendingChangesRef
  /\ syncState' = IF isMounted
                  THEN [syncState EXCEPT !.isSyncing = FALSE, !.hasError = TRUE,
                                         !.errorMessage = {MsgSync}]
                  ELSE syncState
  /\ syncInProgress' = TRUE
  /\ mutsSince' = mutsSince

\* the state updates of the catch branch of saveToSupabase
SaveFailed(call) ==
  /\ pendingChangesRef' = pendingChangesRef
  /\ syncState' = IF isMounted
                  THEN [syncState EXCEPT !.isSyncing = FALSE, !.hasError = TRUE,
                                         !.errorMessage = {MsgSync}]
                  ELSE syncState
  /\ syncInProgress' = IF isMounted THEN FALSE ELSE TRUE
  /\ mutsSince' = mutsSince

\* variant: the guard does not look at syncInProgress
SaveGuardIdOnly(id) == id # NoUser

\* the guard of saveToSupabase
SaveGuard(id) == id # NoUser /\ ~syncInProgress

\* saveToSupabase(id, flights) up to its await; op names the caller
saveToSupabase(op, id, snap, elapsed, burst) ==
  IF ~SaveGuard(id)
  THEN /\ UNCHANGED <<syncInProgress, syncState, pendingChangesRef, calls, mutsSince, dirty,
                      offlineN>>
       /\ ev' = [Event(op, "dropped", NoCall) EXCEPT !.elapsed = elapsed, !.burst = burst]
  ELSE IF ReturnsAtOnce(snap)
  THEN /\ SaveSucceeded(NewCall("push", "returned", op, id, snap))
       /\ calls' = calls
       /\ dirty' = (snap # flights)
       /\ offlineN' = 0
       /\ ev' = [Event(op, "ok", NewCall("push", "returned", op, id, snap))
                 EXCEPT !.elapsed = elapsed, !.burst = burst]
  ELSE /\ syncInProgress' = TRUE
       /\ syncState' = IF isMounted THEN [syncState EXCEPT !.isSyncing = TRUE]
                                    ELSE syncState
       /\ calls' = Append(calls, NewCall("push", "upsert", op, id, snap))
       /\ dirty' = (snap # flights)
       /\ offlineN' = 0
       /\ UNCHANGED <<pendingChangesRef, mutsSince>>
       /\ ev' = [Event(op, "started", NewCall("push", "upsert", op, id, snap))
                 EXCEPT !.elapsed = elapsed, !.burst = burst]

(* ------------------------------ local store ----------------------------- *)
\* the row the coordinator's addFlight sends on the online fast path
FastPathFlight(input, localId, t) ==
  [id |-> FastPathId(localId), flightNumber |-> input.flightNumber,
   distance |-> input.distance,
   class |-> {toFormData(input).class},
   created_at |-> t, updated_at |-> {}]

OnlineFastPath == userId # NoUser /\ connectionStatus = "online"

\* what the three local mutations have in common: the store's new collection and
\* the single-record adapter call made when Online
Mutation(op, newFlights, fastOp) ==
  /\ isMounted /\ ~effectDue
  /\ muts < MaxMutations
  /\ OnlineFastPath => Len(fastOps) < MaxFastOps
  /\ flights' = newFlights
  /\ fastOps' = IF OnlineFastPath THEN Append(fastOps, fastOp) ELSE fastOps
  /\ muts' = muts + 1
  /\ mutsSince' = mutsSince + 1
  /\ dirty' = TRUE
  /\ sinceMutation' = 0
  /\ burstN' = IF InBurst THEN burstN + 1 ELSE 0
  /\ offlineN' = IF connectionStatus = "offline" THEN offlineN + 1 ELSE 0
  /\ ev' = Event(op, "none", [NoCall EXCEPT !.pend0 = syncState.pendingChanges])
  /\ UNCHANGED <<userId, adapter, storeState, storeCall, pulls, isMounted, connectionStatus, syncState, loading, syncInProgress,
                 pendingChangesRef, timer, checks, calls, remote, now, faults,
                 localStorage, launches>>
  /\ effectDue' = EffectRuns(TRUE)

\* useSupabaseSync.addFlight: store.addFlight, then SupabaseService.addFlight if online
AddFlight(input) ==
  /\ nextId' = nextId + 1
  /\ Mutation("addFlight",
              Append(flights, [id |-> nextId, created_at |-> now]
                                @@ convertFormToFlight(toFormData(input), now)),
              [op |-> "insert", pc |-> "insert", owner |-> userId,
               id |-> FastPathId(nextId),
               row |-> toSupabase(FastPathFlight(input, nextId, now), userId),
               updates |-> <<>>])

\* useSupabaseSync.deleteFlight: store.deleteFlight, then SupabaseService.deleteFlight if online
DeleteFlight(id) ==
  /\ nextId' = nextId
  /\ Mutation("deleteFlight",
              SelectSeq(flights, LAMBDA f : f.id # id),
              [op |-> "delete", pc |-> "delete", owner |-> userId, id |-> id,
               row |-> StaleRowA, updates |-> <<>>])

\* useSupabaseSync.updateFlight: store.updateFlight, then SupabaseService.updateFlight if online
UpdateFlight(id, updates) ==
  /\ nextId' = nextId
  /\ Mutation("updateFlight",
              [i \in DOMAIN flights |->
                 IF flights[i].id = id
                 THEN Merge(flights[i], Merge(updates, [updated_at |-> {now}]))
                 ELSE flights[i]],
              [op |-> "update", pc |-> "get", owner |-> userId, id |-> id,
               row |-> StaleRowA, updates |-> updates])

(* ----------------------------- auto-save effect ------------------------- *)
\* the auto-save effect (runs when the local data change)
AutoSaveEffect ==
  /\ effectDue
  /\ effectDue' = FALSE
  /\ IF userId = NoUser \/ syncState.isSyncing \/ connectionStatus # "online"
     THEN UNCHANGED <<pendingChangesRef, syncState, timer>>
     ELSE /\ pendingChangesRef' = pendingChangesRef + 1
          /\ syncState' = [syncState EXCEPT !.pendingChanges = pendingChangesRef + 1]
          /\ timer' = debouncedCallback(timer, userId, flights)
  /\ ev' = Event("autoSaveEffect", "none", NoCall)
  /\ UNCHANGED <<store, userId, adapter, storeState, storeCall, pulls, isMounted, connectionStatus, loading, syncInProgress,
                 checks, calls, fastOps, remote, now, sinceMutation, muts, offlineN, mutsSince,
                 dirty, burstN, faults,
                 localStorage, launches>>

\* the timeout of useDebounce expires: callback(...args) is saveToSupabase(userId, flights)
TimerFire ==
  /\ ~effectDue
  /\ timer.set /\ timer.left = 0
  /\ timer' = NoTimer
  /\ saveToSupabase("timerFire", timer.owner, timer.snap, sinceMutation, burstN)
  /\ burstN' = 0
  /\ sinceMutation' = 0
  /\ UNCHANGED <<store, userId, adapter, storeState, storeCall, pulls, isMounted, connectionStatus, loading, checks, fastOps,
                 remote, now, muts, faults,
                 localStorage, launches>>
  /\ effectDue' = EffectRuns(FALSE)

\* one unit of time passes; a timeout that is due runs first
Tick ==
  /\ ~effectDue
  /\ ~(timer.set /\ timer.left = 0)
  /\ timer.set \/ now < MaxTime
  /\ now' = Min(now + 1, MaxTime)
  /\ sinceMutation' = IF timer.set THEN Min(sinceMutation + 1, DebounceDelay + 1)
                                    ELSE sinceMutation
  /\ timer' = IF timer.set THEN [timer EXCEPT !.left = timer.left - 1] ELSE timer
  /\ ev' = Other
  /\ UNCHANGED <<store, userId, adapter, storeState, storeCall, pulls, isMounted, connectionStatus, syncState, loading,
                 syncInProgress, pendingChangesRef, effectDue, checks, calls, fastOps,
                 remote, muts, offlineN, mutsSince, dirty, burstN, faults,
                 localStorage, launches>>

(* ------------------------- connectivity and pull ------------------------ *)
\* checkConnection() up to its await: setConnectionStatus('checking')
StartCheck(kind, owner, snap) ==
  /\ connectionStatus' = IF isMounted THEN "checking" ELSE connectionStatus
  /\ checks' = Append(checks, [kind |-> kind, owner |-> owner, snap |-> snap])

\* checkConnection() after SupabaseService.checkConnection resolved
EndCheck(i, isConnected) ==
  /\ checks' = RemoveAt(checks, i)
  /\ connectionStatus' = IF isMounted
                         THEN (IF isConnected THEN "online" ELSE "offline")
                         ELSE connectionStatus

\* the initialisation effect: the user id becomes known, initialize() starts
UserKnown ==
  /\ isMounted /\ ~effectDue
  /\ userId = NoUser
  /\ userId' = OwnerA
  /\ StartCheck("init", OwnerA, <<>>)
  /\ ev' = Other
  /\ burstN' = 0
  /\ UNCHANGED <<store, pulls, adapter, storeState, storeCall, isMounted, syncState, loading, syncInProgress, pendingChangesRef,
                 timer, calls, fastOps, remote, now, sinceMutation, muts, offlineN, mutsSince,
                 dirty, faults,
                 localStorage, launches>>
  /\ effectDue' = EffectRuns(FALSE)

\* the guard of loadFromSupabase
LoadGuard(id) == id # NoUser /\ ~syncInProgress

\* initialize() after checkConnection resolved: loadFromSupabase up to its await when
\* connected, the offline message otherwise
InitCheckDone(i, isConnected) ==
  /\ ~effectDue
  /\ i \in DOMAIN checks
  /\ checks[i].kind = "init"
  /\ EndCheck(i, isConnected)
  /\ IF isConnected /\ LoadGuard(checks[i].owner)
     THEN /\ syncInProgress' = TRUE
          /\ loading' = IF isMounted THEN TRUE ELSE loading
          /\ syncState' = IF isMounted THEN [syncState EXCEPT !.isSyncing = TRUE]
                                       ELSE syncState
          /\ calls' = Append(calls, NewCall("pull", "select", "initialize", checks[i].owner, <<>>))
          /\ pulls' = pulls + 1
          /\ ev' = Event("initialize", "pullStarted",
                         NewCall("pull", "select", "initialize", checks[i].owner, <<>>))
     ELSE /\ syncState' = IF isMounted /\ ~isConnected
                          THEN [syncState EXCEPT !.hasError = TRUE,
                                                 !.errorMessage = {MsgOfflineMode}]
                          ELSE syncState
          /\ ev' = Event("initialize", IF isConnected THEN "dropped" ELSE "none", NoCall)
          /\ UNCHANGED <<syncInProgress, loading, calls, pulls>>
  /\ burstN' = 0
  /\ UNCHANGED <<store, userId, adapter, storeState, storeCall, isMounted, pendingChangesRef, timer, fastOps, remote, now,
                 sinceMutation, muts, offlineN, mutsSince, dirty, faults,
                 localStorage, launches>>
  /\ effectDue' = EffectRuns(FALSE)

\* a variant that adopts the pulled flights when the store is empty
AfterLoadAdopts(userData) ==
  IF userData = {} \/ flights # <<>> THEN flights ELSE <<CHOOSE f \in userData : TRUE>>

\* initialize awaits loadFromSupabase(userId) and drops the userData it returns:
\* the flights of the store after a pull
AfterLoad(userData) == flights

\* loadUserData resolves or rejects: the rest of loadFromSupabase. ok: the
\* select succeeds; catchAll: loadUserData is the one of the first class in
\* theme.ts, which resolves with empty data when the select fails
PullDone(i, ok, catchAll) ==
  /\ ~effectDue
  /\ i \in DOMAIN calls
  /\ calls[i].kind = "pull"
  /\ ok \/ faults < MaxFaults
  /\ faults' = IF ok THEN faults ELSE faults + 1
  /\ calls' = RemoveAt(calls, i)
  /\ syncState' = IF ~isMounted THEN syncState
                  ELSE IF loadUserDataCall(remote, calls[i].owner, ok).error = "none" \/ catchAll
                  THEN [syncState EXCEPT !.isSyncing = FALSE, !.lastSync = {now},
                                         !.hasError = FALSE, !.errorMessage = {}]
                  ELSE [syncState EXCEPT !.isSyncing = FALSE, !.hasError = TRUE,
                                         !.errorMessage = {MsgLoad}]
  /\ loading' = IF isMounted THEN FALSE ELSE loading
  /\ syncInProgress' = IF isMounted THEN FALSE ELSE syncInProgress
  /\ ev' = Event("loadFromSupabase",
                 IF loadUserDataCall(remote, calls[i].owner, ok).error = "none" \/ catchAll
                 THEN "pulled" ELSE "pullFailed",
                 calls[i])
  /\ flights' = IF catchAll
                THEN AfterLoad(loadUserDataCatchAll(remote, calls[i].owner, ok).returned)
                ELSE AfterLoad(loadUserDataCall(remote, calls[i].owner, ok).returned)
  /\ UNCHANGED <<nextId, userId, adapter, storeState, storeCall, pulls, isMounted, connectionStatus, pendingChangesRef, timer,
                 checks, fastOps, remote, now, sinceMutation, muts, offlineN, mutsSince, dirty,
                 burstN,
                 localStorage, launches>>
  /\ effectDue' = EffectRuns(FALSE)

(* ------------------------------ saveUserData ---------------------------- *)
\* the end of a push: the success or the catch branch of saveToSupabase
FinishPush(op, i, ok) ==
  /\ calls' = RemoveAt(calls, i)
  /\ IF ok THEN SaveSucceeded(calls[i]) ELSE SaveFailed(calls[i])
  /\ ev' = Event(op, IF ok THEN "ok" ELSE "failed", calls[i])

\* a network call of saveUserData resolves
PushStep(i, pc, ok) ==
  /\ ~effectDue
  /\ i \in DOMAIN calls
  /\ calls[i].kind = "push" /\ calls[i].pc = pc
  /\ ok \/ faults < MaxFaults
  /\ faults' = IF ok THEN faults ELSE faults + 1
  /\ UNCHANGED <<store, userId, adapter, storeState, storeCall, pulls, isMounted, connectionStatus, loading, timer, checks,
                 fastOps, now, sinceMutation, muts, offlineN, dirty, burstN,
                 localStorage, launches>>

\* upsert(flightRecords, { onConflict: 'id' })
PushUpsert(i, ok) ==
  /\ PushStep(i, "upsert", ok)
  /\ IF ok
     THEN /\ remote' = Upsert(remote, {toSupabase(calls[i].snap[k], calls[i].owner) :
                                          k \in DOMAIN calls[i].snap})
          /\ calls' = [calls EXCEPT ![i].pc = "select"]
          /\ ev' = Other
          /\ UNCHANGED <<syncState, syncInProgress, pendingChangesRef, mutsSince>>
     ELSE /\ remote' = remote
          /\ FinishPush("saveToSupabase", i, FALSE)
  /\ effectDue' = EffectRuns(FALSE)

\* the ids of the owner's remote rows that are not ids of the pushed collection
IdsToDelete(table, call) ==
  {r.id : r \in RowsOf(table, call.owner)} \ IdsOf(call.snap)

\* select('id').eq('user_id', userId): a fetch error is logged and the push succeeds
PushSelect(i, ok) ==
  /\ PushStep(i, "select", ok)
  /\ remote' = remote
  /\ IF ok /\ IdsToDelete(remote, calls[i]) # {}
     THEN /\ calls' = [calls EXCEPT ![i].pc = "delete",
                                    ![i].stale = IdsToDelete(remote, calls[i])]
          /\ ev' = Other
          /\ UNCHANGED <<syncState, syncInProgress, pendingChangesRef, mutsSince>>
     ELSE FinishPush("saveToSupabase", i, TRUE)
  /\ effectDue' = EffectRuns(FALSE)

\* delete().in('id', idsToDelete): a delete error is logged and the push succeeds
PushDelete(i, ok) ==
  /\ PushStep(i, "delete", ok)
  /\ remote' = IF ok THEN {r \in remote : r.id \notin calls[i].stale} ELSE remote
  /\ FinishPush("saveToSupabase", i, TRUE)
  /\ effectDue' = EffectRuns(FALSE)

(* --------------------------- force / retry sync ------------------------- *)
\* forceSync(): saveToSupabase(userId, localFlights) unless a sync is in progress
ForceSync ==
  /\ isMounted /\ ~effectDue
  /\ saveToSupabase("forceSync", userId, flights, 0, 0)
  /\ burstN' = 0
  /\ UNCHANGED <<store, userId, adapter, storeState, storeCall, pulls, isMounted, connectionStatus, loading, timer, checks,
                 fastOps, remote, now, sinceMutation, muts, faults,
                 localStorage, launches>>
  /\ effectDue' = EffectRuns(FALSE)

\* retrySync() up to the await of checkConnection; forceSync and its localFlights
\* are those of the render in which retrySync was invoked
RetrySync ==
  /\ isMounted /\ ~effectDue
  /\ userId # NoUser
  /\ faults < MaxFaults
  /\ faults' = faults + 1
  /\ StartCheck("retry", userId, flights)
  /\ ev' = Other
  /\ burstN' = 0
  /\ UNCHANGED <<store, userId, adapter, storeState, storeCall, pulls, isMounted, syncState, loading, syncInProgress,
                 pendingChangesRef, timer, calls, fastOps, remote, now, sinceMutation,
                 muts, offlineN, mutsSince, dirty,
                 localStorage, launches>>
  /\ effectDue' = EffectRuns(FALSE)

\* retrySync() after checkConnection resolved
RetryCheckDone(i, isConnected) ==
  /\ ~effectDue
  /\ i \in DOMAIN checks
  /\ checks[i].kind = "retry"
  /\ EndCheck(i, isConnected)
  /\ IF isConnected
     THEN saveToSupabase("retrySync", checks[i].owner, checks[i].snap, 0, 0)
     ELSE /\ syncState' = IF isMounted
                          THEN [syncState EXCEPT !.hasError = TRUE,
                                                 !.errorMessage = {MsgNoConnection}]
                          ELSE syncState
          /\ ev' = Event("retrySync", "none", NoCall)
          /\ UNCHANGED <<syncInProgress, pendingChangesRef, calls, mutsSince, dirty,
                         offlineN>>
  /\ burstN' = 0
  /\ UNCHANGED <<store, userId, adapter, storeState, storeCall, pulls, isMounted, loading, timer, fastOps, remote, now,
                 sinceMutation, muts, faults,
                 localStorage, launches>>
  /\ effectDue' = EffectRuns(FALSE)

\* checkConnection(), as returned by the hook, up to its await
CheckConnection ==
  /\ isMounted /\ ~effectDue
  /\ faults < MaxFaults
  /\ faults' = faults + 1
  /\ StartCheck("plain", userId, <<>>)
  /\ ev' = Other
  /\ burstN' = 0
  /\ UNCHANGED <<store, userId, adapter, storeState, storeCall, pulls, isMounted, syncState, loading, syncInProgress,
                 pendingChangesRef, timer, calls, fastOps, remote, now, sinceMutation,
                 muts, offlineN, mutsSince, dirty,
                 localStorage, launches>>
  /\ effectDue' = EffectRuns(FALSE)

\* checkConnection(), as returned by the hook, after the probe resolved
PlainCheckDone(i, isConnected) ==
  /\ ~effectDue
  /\ i \in DOMAIN checks
  /\ checks[i].kind = "plain"
  /\ EndCheck(i, isConnected)
  /\ ev' = Event("checkConnection", "none", NoCall)
  /\ burstN' = 0
  /\ UNCHANGED <<store, userId, adapter, storeState, storeCall, pulls, isMounted, syncState, loading, syncInProgress,
                 pendingChangesRef, timer, calls, fastOps, remote, now, sinceMutation,
                 muts, offlineN, mutsSince, dirty, faults,
                 localStorage, launches>>
  /\ effectDue' = EffectRuns(FALSE)

\* clearError()
ClearError ==
  /\ isMounted /\ ~effectDue
  /\ syncState.hasError
  /\ syncState' = [syncState EXCEPT !.hasError = FALSE, !.errorMessage = {}]
  /\ ev' = Other
  /\ UNCHANGED <<store, userId, adapter, storeState, storeCall, pulls, isMounted, connectionStatus, loading, syncInProgress,
                 pendingChangesRef, effectDue, timer, checks, calls, fastOps, remote, now,
                 sinceMutation, muts, offlineN, mutsSince, dirty, burstN, faults,
                 localStorage, launches>>

\* the cleanups of useSupabaseSync (isMounted) and of useDebounce (clearTimeout)
Unmount ==
  /\ isMounted /\ ~effectDue
  /\ isMounted' = FALSE
  /\ timer' = NoTimer
  /\ ev' = Other
  /\ burstN' = 0
  /\ sinceMutation' = 0
  /\ UNCHANGED <<store, userId, adapter, storeState, storeCall, pulls, connectionStatus, syncState, loading, syncInProgress,
                 pendingChangesRef, effectDue, checks, calls, fastOps, remote, now, muts, offlineN,
                 mutsSince, dirty, faults,
                 localStorage, launches>>

(* ------------------------ single-record adapter calls ------------------- *)
InnerCatchRethrows(error) == IF error = "none" THEN "ok" ELSE "thrown"

\* the inner catch of the hook's addFlight / deleteFlight / updateFlight:
\* console.warn and nothing else, so the error stops there
InnerCatch(error) == IF error = "none" THEN "ok" ELSE "logged"

\* the error of a single-record adapter call: the transport's, else the
\* database's own (duplicate primary key, record not found)
FastError(ok, dbError) == IF ~ok THEN "transport" ELSE dbError

\* a network call of the online fast path resolves
FastStep(i, op, pc, ok, dbError) ==
  /\ ~effectDue
  /\ i \in DOMAIN fastOps
  /\ fastOps[i].op = op /\ fastOps[i].pc = pc
  /\ ok \/ faults < MaxFaults
  /\ faults' = IF ok THEN faults ELSE faults + 1
  /\ ev' = Event("fastPath", InnerCatch(FastError(ok, dbError)),
                 [NoCall EXCEPT !.kind = op, !.pc = FastError(ok, dbError)])
  /\ UNCHANGED <<store, userId, adapter, storeState, storeCall, pulls, isMounted, connectionStatus, syncState, loading,
                 syncInProgress, pendingChangesRef, effectDue, timer, checks, calls, now,
                 sinceMutation, muts, offlineN, mutsSince, dirty, burstN,
                 localStorage, launches>>

\* SupabaseService.addFlight: insert(row), an error for an existing primary key
FastInsert(i, ok) ==
  /\ FastStep(i, "insert", "insert", ok,
              IF fastOps[i].id \in {r.id : r \in remote} THEN "duplicate" ELSE "none")
  /\ fastOps' = RemoveAt(fastOps, i)
  /\ remote' = IF ok /\ fastOps[i].id \notin {r.id : r \in remote}
               THEN remote \cup {fastOps[i].row}
               ELSE remote

\* SupabaseService.deleteFlight: delete().eq('user_id', userId).eq('id', flightId)
FastDelete(i, ok) ==
  /\ FastStep(i, "delete", "delete", ok, "none")
  /\ fastOps' = RemoveAt(fastOps, i)
  /\ remote' = IF ok
               THEN {r \in remote : ~(r.user_id = fastOps[i].owner /\ r.id = fastOps[i].id)}
               ELSE remote

\* SupabaseService.updateFlight, first call: getFlightById(userId, flightId)
FastGet(i, ok) ==
  /\ FastStep(i, "update", "get", ok,
              IF \E r \in remote : r.user_id = fastOps[i].owner /\ r.id = fastOps[i].id
              THEN "none" ELSE "notFound")
  /\ LET found == {r \in remote : r.user_id = fastOps[i].owner /\ r.id = fastOps[i].id}
     IN IF ok /\ found # {}
        THEN fastOps' = [fastOps EXCEPT
               ![i].pc = "upsert",
               ![i].row = toSupabase(Merge(fromSupabase(CHOOSE r \in found : TRUE),
                                           Merge(fastOps[i].updates, [updated_at |-> {now}])),
                                     fastOps[i].owner)]
        ELSE fastOps' = RemoveAt(fastOps, i)
  /\ remote' = remote

\* SupabaseService.updateFlight, second call: upsert(updateData, { onConflict: 'id' })
FastUpsert(i, ok) ==
  /\ FastStep(i, "update", "upsert", ok, "none")
  /\ fastOps' = RemoveAt(fastOps, i)
  /\ remote' = IF ok THEN Upsert(remote, {fastOps[i].row}) ELSE remote

(* ------------------------------ specification --------------------------- *)
Next ==
  \/ UserKnown
  \/ \E input \in FlightInputs : AddFlight(input)
  \/ \E id \in 1..(nextId - 1) : DeleteFlight(id)
  \/ \E id \in 1..(nextId - 1), updates \in FlightUpdates : UpdateFlight(id, updates)
  \/ AutoSaveEffect
  \/ TimerFire
  \/ Tick
  \/ \E i \in DOMAIN checks, isConnected \in BOOLEAN : InitCheckDone(i, isConnected)
  \/ \E i \in DOMAIN calls, ok, catchAll \in BOOLEAN : PullDone(i, ok, catchAll)
  \/ \E i \in DOMAIN calls, ok \in BOOLEAN : PushUpsert(i, ok)
  \/ \E i \in DOMAIN calls, ok \in BOOLEAN : PushSelect(i, ok)
  \/ \E i \in DOMAIN calls, ok \in BOOLEAN : PushDelete(i, ok)
  \/ ForceSync
  \/ RetrySync
  \/ \E i \in DOMAIN checks, isConnected \in BOOLEAN : RetryCheckDone(i, isConnected)
  \/ CheckConnection
  \/ \E i \in DOMAIN checks, isConnected \in BOOLEAN : PlainCheckDone(i, isConnected)
  \/ ClearError
  \/ Unmount
  \/ \E i \in DOMAIN fastOps, ok \in BOOLEAN : FastInsert(i, ok)
  \/ \E i \in DOMAIN fastOps, ok \in BOOLEAN : FastDelete(i, ok)
  \/ \E i \in DOMAIN fastOps, ok \in BOOLEAN : FastGet(i, ok)
  \/ \E i \in DOMAIN fastOps, ok \in BOOLEAN : FastUpsert(i, ok)

Spec == Init /\ [][Next]_vars

(* The app stays mounted and connectivity is not probed again: the steps of Next
   other than Unmount, retrySync and checkConnection. *)
StayNext ==
  \/ UserKnown
  \/ \E input \in FlightInputs : AddFlight(input)
  \/ \E id \in 1..(nextId - 1) : DeleteFlight(id)
  \/ \E id \in 1..(nextId - 1), updates \in FlightUpdates : UpdateFlight(id, updates)
  \/ AutoSaveEffect
  \/ TimerFire
  \/ Tick
  \/ \E i \in DOMAIN checks, isConnected \in BOOLEAN : InitCheckDone(i, isConnected)
  \/ \E i \in DOMAIN calls, ok, catchAll \in BOOLEAN : PullDone(i, ok, catchAll)
  \/ \E i \in DOMAIN calls, ok \in BOOLEAN : PushUpsert(i, ok)
  \/ \E i \in DOMAIN calls, ok \in BOOLEAN : PushSelect(i, ok)
  \/ \E i \in DOMAIN calls, ok \in BOOLEAN : PushDelete(i, ok)
  \/ ForceSync
  \/ ClearError
  \/ \E i \in DOMAIN fastOps, ok \in BOOLEAN : FastInsert(i, ok)
  \/ \E i \in DOMAIN fastOps, ok \in BOOLEAN : FastDelete(i, ok)
  \/ \E i \in DOMAIN fastOps, ok \in BOOLEAN : FastGet(i, ok)
  \/ \E i \in DOMAIN fastOps, ok \in BOOLEAN : FastUpsert(i, ok)

(* fairness: an effect of a committed render runs, time passes and a due timeout
   fires, and every network call resolves (with success whenever no failure is left) *)
Fairness ==
  /\ WF_vars(AutoSaveEffect)
  /\ WF_vars(TimerFire)
  /\ WF_vars(Tick)
  /\ WF_vars(\E i \in DOMAIN checks, c \in BOOLEAN : InitCheckDone(i, c))
  /\ WF_vars(\E i \in DOMAIN calls, ok, catchAll \in BOOLEAN : PullDone(i, ok, catchAll))
  /\ WF_vars(\E i \in DOMAIN calls, ok \in BOOLEAN : PushUpsert(i, ok))
  /\ WF_vars(\E i \in DOMAIN calls, ok \in BOOLEAN : PushSelect(i, ok))
  /\ WF_vars(\E i \in DOMAIN calls, ok \in BOOLEAN : PushDelete(i, ok))

FairSpec == Init /\ [][StayNext]_vars /\ Fairness

(* ------------------- SupabaseService called on its own ------------------ *)
\* the arguments of the calls
AdapterOwners == {OwnerA, OwnerBad}

AdapterIds == {1, StaleRowA.id, RowB.id}

\* a flight with that id, made at time t
AdapterFlight(id, t) ==
  [id |-> id, created_at |-> t] @@ convertFormToFlight(toFormData(CHOOSE f \in FlightInputs : TRUE), t)

AdapterCollections(t) ==
  {<<>>, <<AdapterFlight(1, t), AdapterFlight(StaleRowA.id, t)>>}
    \cup {<<AdapterFlight(id, t)>> : id \in AdapterIds}

\* a call of the adapter with nothing else running: the table and the record of the call
AdapterCall(op, variant, owner, arg, res) ==
  /\ remote' = res.table
  /\ adapter' = [op |-> op, variant |-> variant, owner |-> owner, arg |-> arg,
                 before |-> remote, requests |-> res.requests, error |-> res.error,
                 returned |-> res.returned,
                 repeat |-> /\ adapter.op = op /\ adapter.variant = variant
                            /\ adapter.owner = owner /\ adapter.arg = arg
                            /\ adapter.error = "none" /\ res.error = "none"]
  /\ UNCHANGED <<store, userId, isMounted, connectionStatus, syncState, loading,
                 syncInProgress, pendingChangesRef, effectDue, timer, checks, calls, fastOps,
                 now, sinceMutation, muts, mutsSince, dirty, burstN, offlineN, pulls, faults,
                 ev,
                 storeState, storeCall,
                 localStorage, launches>>

LoadUserData(owner, ok) ==
  AdapterCall("loadUserData", "upsert", owner, <<>>, loadUserDataCall(remote, owner, ok))

LoadUserDataCatchAll(owner, ok) ==
  AdapterCall("loadUserData", "deleteInsert", owner, <<>>,
              loadUserDataCatchAll(remote, owner, ok))

SaveUserData(owner, snap, upOk, selOk, delOk) ==
  AdapterCall("saveUserData", "upsert", owner, snap,
              saveUserDataCall(remote, owner, snap, upOk, selOk, delOk))

SaveUserDataDeleteInsert(owner, snap, delOk, insOk) ==
  AdapterCall("saveUserData", "deleteInsert", owner, snap,
              saveUserDataDeleteInsert(remote, owner, snap, delOk, insOk))

AddFlightRow(owner, flight, ok) ==
  AdapterCall("addFlight", "upsert", owner, <<flight>>,
              addFlightCall(remote, owner, flight, ok))

DeleteFlightRow(owner, flightId, ok) ==
  AdapterCall("deleteFlight", "upsert", owner, <<flightId>>,
              deleteFlightCall(remote, owner, flightId, ok))

UpdateFlightRow(owner, flightId, updates, getOk, upOk) ==
  AdapterCall("updateFlight", "upsert", owner, <<flightId, updates>>,
              updateFlightCall(remote, owner, flightId, updates, now, getOk, upOk))

AdapterNext ==
  \/ \E owner \in AdapterOwners, ok \in BOOLEAN : LoadUserData(owner, ok)
  \/ \E owner \in AdapterOwners, ok \in BOOLEAN : LoadUserDataCatchAll(owner, ok)
  \/ \E owner \in AdapterOwners, snap \in AdapterCollections(now), upOk, selOk, delOk \in BOOLEAN :
       SaveUserData(owner, snap, upOk, selOk, delOk)
  \/ \E owner \in AdapterOwners, snap \in AdapterCollections(now), delOk, insOk \in BOOLEAN :
       SaveUserDataDeleteInsert(owner, snap, delOk, insOk)
  \/ \E owner \in AdapterOwners, id \in AdapterIds, ok \in BOOLEAN :
       AddFlightRow(owner, AdapterFlight(id, now), ok)
  \/ \E owner \in AdapterOwners, id \in AdapterIds, ok \in BOOLEAN :
       DeleteFlightRow(owner, id, ok)
  \/ \E owner \in AdapterOwners, id \in AdapterIds, updates \in FlightUpdates,
        getOk, upOk \in BOOLEAN :
       UpdateFlightRow(owner, id, updates, getOk, upOk)

\* the class and reason columns are text: what other writers left there
WireClasses == {{}, {"first"}, {"vip"}}

WireReasons == {{}, {"leisure"}, {"fun"}}

WireRow(class, reason) == [StaleRowA EXCEPT !.id = 91, !.class = class, !.reason = reason]

\* the table before the calls: any rows of the two users, or one row with any
\* class and reason
AdapterInit ==
  /\ HookInit
  /\ remote \in SUBSET {StaleRowA, RowB}
                \cup {{WireRow(class, reason)} : class \in WireClasses, reason \in WireReasons}

AdapterSpec == AdapterInit /\ [][AdapterNext]_vars

(* ---------------------- useFlightStore called on its own ----------------- *)
\* the messages of validateFlightData, in the order the code pushes them
MsgOrigin == "origin required"
MsgDestination == "destination required"
MsgDate == "date required"
MsgAirline == "airline required"
MsgFlightNumber == "flight number required"
MsgFuture == "date in the future"
MsgDistance == "distance must be a positive number"

\* new Date(text) for the dates of the model, which are written as the number
\* of the day: Invalid Date, written {}, for anything else
DateOf(text) ==
  IF text # <<>> /\ \A i \in DOMAIN text : IsDigit(text[i])
  THEN {DecimalValue(text)} ELSE {}

\* flightDate > today, today being midnight local time of the current day and
\* new Date('YYYY-MM-DD') midnight UTC of the day written: the current day
\* itself is later than today where local time is ahead of UTC
AfterToday(day, today, aheadOfUTC) == day > today \/ (day = today /\ aheadOfUTC)

validateFlightData(form, today, aheadOfUTC) ==
  LET required(text, msg) == IF text = <<>> THEN <<msg>> ELSE <<>>
  IN required(Trim(form.origin), MsgOrigin)
     \o required(Trim(form.destination), MsgDestination)
     \o required(form.date, MsgDate)
     \o required(Trim(form.airline), MsgAirline)
     \o required(Trim(form.flightNumber), MsgFlightNumber)
     \o (IF /\ form.date # <<>>
            /\ \E day \in DateOf(form.date) : AfterToday(day, today, aheadOfUTC)
         THEN <<MsgFuture>> ELSE <<>>)
     \o (IF /\ form.distance # <<>>
            /\ \/ parseInt(form.distance) = {}
               \/ \E n \in parseInt(form.distance) : n < 0
         THEN <<MsgDistance>> ELSE <<>>)

\* Array.prototype.join(', ')
RECURSIVE Join(_)
Join(msgs) ==
  IF msgs = <<>> THEN ""
  ELSE IF Len(msgs) = 1 THEN msgs[1]
  ELSE msgs[1] \o ", " \o Join(Tail(msgs))

\* the forms given to the store: a complete form dated with the day given, and
\* the same form with a field left empty, blank or unreadable
FormDated(day) ==
  [date |-> toString(day),
   airline |-> <<" ", "t", "k">>,
   flightNumber |-> <<"t", "k", "1", " ">>,
   origin |-> <<"i", "s", "t">>,
   destination |-> <<"j", "f", "k", " ">>,
   aircraft |-> <<>>,
   registration |-> <<"t", "c", "-", "j", " ">>,
   seat |-> <<" ", "1", "a">>,
   distance |-> <<>>,
   duration |-> <<" ">>,
   class |-> "economy",
   note |-> <<"o", "k">>]

StoreForms(today) ==
  {FormDated(day) : day \in {today, today + 1} \cup {d \in {today - 1} : d >= 0}}
  \cup {[FormDated(today) EXCEPT !.date = date] : date \in {<<>>, <<"x">>}}
  \cup {[FormDated(0) EXCEPT !.distance = text] :
          text \in {<<"0">>, <<" ", "1", "2", "k", "m">>, <<"-", "5">>, <<"k", "m">>}}
  \cup {[FormDated(today + 1) EXCEPT !.origin = <<" ">>, !.seat = <<>>]}

\* Partial<Flight> values given to the store's updateFlight
StoreUpdates(t) ==
  {[distance |-> {7}], [id |-> 1], [created_at |-> t]}

\* how a call of the store ended: the state after it and the error thrown
StoreResult(newFlights, newState, thrown) ==
  [flights |-> newFlights, state |-> newState, thrown |-> thrown]

storeAddFlightFirstError(list, state, form, id, t, aheadOfUTC) ==
  LET validationErrors == validateFlightData(form, t, aheadOfUTC)
      newFlight == [id |-> id, created_at |-> t] @@ convertFormToFlight(form, t)
  IN IF validationErrors # <<>>
     THEN StoreResult(list,
                      [state EXCEPT !.error = {validationErrors[1]}, !.isLoading = FALSE],
                      {validationErrors[1]})
     ELSE StoreResult(Append(list, newFlight),
                      [state EXCEPT !.error = {}, !.isLoading = FALSE],
                      {})

\* useFlightStore.addFlight
storeAddFlight(list, state, form, id, t, aheadOfUTC) ==
  LET validationErrors == validateFlightData(form, t, aheadOfUTC)
      newFlight == [id |-> id, created_at |-> t] @@ convertFormToFlight(form, t)
  IN IF validationErrors # <<>>
     THEN StoreResult(list,
                      [state EXCEPT !.error = {Join(validationErrors)}, !.isLoading = FALSE],
                      {Join(validationErrors)})
     ELSE StoreResult(Append(list, newFlight),
                      [state EXCEPT !.error = {}, !.isLoading = FALSE],
                      {})

\* useFlightStore.updateFlight
storeUpdateFlight(list, state, id, updates, t) ==
  LET flightUpdates == Merge(updates, [updated_at |-> {t}])
  IN StoreResult([i \in DOMAIN list |->
                    IF list[i].id = id THEN Merge(list[i], flightUpdates) ELSE list[i]],
                 [state EXCEPT
                    !.error = {},
                    !.isLoading = FALSE,
                    !.selectedFlight = {IF f.id = id THEN Merge(f, flightUpdates) ELSE f :
                                          f \in state.selectedFlight}],
                 {})

storeDeleteFlightIfPresent(list, state, id) ==
  IF id \in IdsOf(list)
  THEN StoreResult(SelectSeq(list, LAMBDA f : f.id # id),
                   [state EXCEPT
                      !.error = {},
                      !.isLoading = FALSE,
                      !.selectedFlight = {f \in state.selectedFlight : f.id # id}],
                   {})
  ELSE StoreResult(list, [state EXCEPT !.error = {"not found"}, !.isLoading = FALSE],
                   {"not found"})

\* useFlightStore.deleteFlight
storeDeleteFlight(list, state, id) ==
  StoreResult(SelectSeq(list, LAMBDA f : f.id # id),
              [state EXCEPT
                 !.error = {},
                 !.isLoading = FALSE,
                 !.selectedFlight = {f \in state.selectedFlight : f.id # id}],
              {})

\* useFlightStore.clearFlights: if (window.confirm(...)), and in the second
\* store if (import.meta.env.DEV || window.confirm(...)), where a development
\* build does not ask; devBuild is FALSE for the first store
storeClearFlights(list, state, devBuild, confirmed) ==
  IF devBuild \/ confirmed
  THEN StoreResult(<<>>, [state EXCEPT !.selectedFlight = {}, !.error = {}], {})
  ELSE StoreResult(list, state, {})

\* a call of the store with nothing else running
StoreCall(op, arg, res) ==
  /\ flights' = res.flights
  /\ storeState' = res.state
  /\ storeCall' = [op |-> op, arg |-> arg, at |-> now, before |-> flights,
                   state0 |-> storeState, thrown |-> res.thrown, returned |-> <<>>]
  /\ UNCHANGED <<userId, isMounted, connectionStatus, syncState, loading, syncInProgress,
                 pendingChangesRef, effectDue, timer, checks, calls, fastOps, remote,
                 sinceMutation, muts, mutsSince, dirty, burstN, offlineN, pulls, faults,
                 ev, adapter,
                 localStorage, launches>>

StoreAddFlight(form, aheadOfUTC) ==
  /\ nextId <= MaxStoreAdds
  /\ LET res == storeAddFlight(flights, storeState, form, nextId, now, aheadOfUTC)
     IN /\ StoreCall("addFlight", <<form, aheadOfUTC>>, res)
        /\ nextId' = IF res.thrown = {} THEN nextId + 1 ELSE nextId
  /\ now' = now

StoreUpdateFlight(id, updates) ==
  /\ StoreCall("updateFlight", <<id, updates>>,
               storeUpdateFlight(flights, storeState, id, updates, now))
  /\ UNCHANGED <<nextId, now>>

StoreDeleteFlight(id) ==
  /\ StoreCall("deleteFlight", <<id>>, storeDeleteFlight(flights, storeState, id))
  /\ UNCHANGED <<nextId, now>>

StoreClearFlights(devBuild, confirmed) ==
  /\ StoreCall("clearFlights", <<devBuild, confirmed>>,
               storeClearFlights(flights, storeState, devBuild, confirmed))
  /\ UNCHANGED <<nextId, now>>

\* useFlightStore.selectFlight
SelectFlight(flight) ==
  /\ StoreCall("selectFlight", <<>>,
               StoreResult(flights, [storeState EXCEPT !.selectedFlight = flight], {}))
  /\ UNCHANGED <<nextId, now>>

DistanceOrOne(flight) == IF flight.distance = {} THEN 1 ELSE CHOOSE n \in flight.distance : TRUE

\* flight.distance || 0
DistanceOrZero(flight) == IF flight.distance = {} THEN 0 ELSE CHOOSE n \in flight.distance : TRUE

\* flights.reduce((sum, flight) => sum + (flight.distance || 0), 0)
RECURSIVE TotalDistance(_)
TotalDistance(list) ==
  IF list = <<>> THEN 0
  ELSE TotalDistance(SubSeq(list, 1, Len(list) - 1)) + DistanceOrZero(list[Len(list)])

\* Object.entries(airlineCounts) sorted by count, largest first, the first five:
\* the airlines in the order of their first flight, the sort being stable
MostFrequentAirlines(list) ==
  LET firstAt(a) == CHOOSE i \in DOMAIN list : list[i].airline = a
                                                /\ \A j \in 1..(i - 1) : list[j].airline # a
      count(a) == Cardinality({i \in DOMAIN list : list[i].airline = a})
      airlines == {list[i].airline : i \in {j \in DOMAIN list : list[j].airline # <<>>}}
      before(a, b) == count(a) > count(b) \/ (count(a) = count(b) /\ firstAt(a) < firstAt(b))
      rank(a) == Cardinality({b \in airlines : before(b, a)}) + 1
  IN [k \in 1..Min(5, Cardinality(airlines)) |->
        LET a == CHOOSE x \in airlines : rank(x) = k
        IN [airline |-> a, count |-> count(a)]]

\* the date of sortedByDate[0] (last = FALSE) or of its last element: with
\* valid dates the earliest or latest, the sort being stable; with an
\* invalid date the comparator returns NaN, taken as 0, which keeps two
\* records in their order and leaves the order of more to the engine
DateAtEnd(list, last) ==
  LET time(i) == CHOOSE d \in DateOf(list[i].date) : TRUE
      ends == IF last
              THEN {i \in DOMAIN list : \A j \in DOMAIN list :
                      time(j) < time(i) \/ (time(j) = time(i) /\ j <= i)}
              ELSE {i \in DOMAIN list : \A j \in DOMAIN list :
                      time(j) > time(i) \/ (time(j) = time(i) /\ j >= i)}
  IN IF \A i \in DOMAIN list : DateOf(list[i].date) # {}
     THEN {list[i].date : i \in ends}
     ELSE IF Len(list) <= 2
     THEN {list[IF last THEN Len(list) ELSE 1].date}
     ELSE {list[i].date : i \in DOMAIN list}

\* flightsWithDistance.reduce(...): the first of the longest (shortest) flights
\* among those with a distance above 0
FlightAtExtreme(list, longest) ==
  LET withDistance == {i \in DOMAIN list : DistanceOrZero(list[i]) > 0}
      better(i, j) == IF longest
                      THEN DistanceOrZero(list[i]) > DistanceOrZero(list[j])
                      ELSE DistanceOrZero(list[i]) < DistanceOrZero(list[j])
  IN {list[i] : i \in {k \in withDistance :
                         \A j \in withDistance : ~better(j, k) /\ (j < k => better(k, j))}}

\* calculateStatistics; firstFlight and lastFlight hold the dates the result
\* can have, one unless the order of the sort is left to the engine
calculateStatistics(list) ==
  IF Len(list) = 0
  THEN [totalFlights |-> 0, totalDistance |-> 0, uniqueAirlines |-> 0,
        uniqueDestinations |-> 0, mostFrequentAirlines |-> <<>>, firstFlight |-> {},
        lastFlight |-> {}, longestFlight |-> {}, shortestFlight |-> {}]
  ELSE [totalFlights |-> Len(list),
        totalDistance |-> TotalDistance(list),
        uniqueAirlines |-> Cardinality({list[i].airline : i \in DOMAIN list} \ {<<>>}),
        uniqueDestinations |->
          Cardinality({list[i].destination : i \in DOMAIN list} \ {<<>>}),
        mostFrequentAirlines |-> MostFrequentAirlines(list),
        firstFlight |-> DateAtEnd(list, FALSE),
        lastFlight |-> DateAtEnd(list, TRUE),
        longestFlight |-> FlightAtExtreme(list, TRUE),
        shortestFlight |-> FlightAtExtreme(list, FALSE)]

\* the statistics of the collection are computed
CalculateStatistics ==
  /\ storeCall' = [op |-> "calculateStatistics", arg |-> <<flights>>, at |-> now,
                   before |-> flights, state0 |-> storeState, thrown |-> {},
                   returned |-> <<calculateStatistics(flights)>>]
  /\ UNCHANGED <<store, userId, isMounted, connectionStatus, syncState, loading,
                 syncInProgress, pendingChangesRef, effectDue, timer, checks, calls, fastOps,
                 remote, now, sinceMutation, muts, mutsSince, dirty, burstN, offlineN, pulls,
                 faults, ev, adapter, storeState,
                 localStorage, launches>>

\* a day passes
StoreTick ==
  /\ now < MaxTime
  /\ now' = now + 1
  /\ UNCHANGED <<store, userId, isMounted, connectionStatus, syncState, loading,
                 syncInProgress, pendingChangesRef, effectDue, timer, checks, calls, fastOps,
                 remote, sinceMutation, muts, mutsSince, dirty, burstN, offlineN, pulls,
                 faults, ev, adapter, storeState, storeCall,
                 localStorage, launches>>

StoreNext ==
  \/ \E form \in StoreForms(now), aheadOfUTC \in BOOLEAN : StoreAddFlight(form, aheadOfUTC)
  \/ \E id \in 1..MaxStoreAdds, updates \in StoreUpdates(now) : StoreUpdateFlight(id, updates)
  \/ \E id \in 1..MaxStoreAdds : StoreDeleteFlight(id)
  \/ \E devBuild \in BOOLEAN, confirmed \in BOOLEAN : StoreClearFlights(devBuild, confirmed)
  \/ \E i \in DOMAIN flights : SelectFlight({flights[i]})
  \/ SelectFlight({})
  \/ CalculateStatistics
  \/ StoreTick

StoreInit == HookInit /\ remote = {}

StoreSpec == StoreInit /\ [][StoreNext]_vars

(* ----------------------------- applyFilters ----------------------------- *)
\* the most records the listed collection holds
MaxListed == 3

\* String.prototype.toLowerCase
ToLowerCase(s) ==
  [i \in DOMAIN s |->
     IF \E k \in DOMAIN UpperCase : UpperCase[k] = s[i]
     THEN LowerCase[CHOOSE k \in DOMAIN UpperCase : UpperCase[k] = s[i]]
     ELSE s[i]]

\* String.prototype.includes
Includes(s, part) ==
  \E i \in 0..(Len(s) - Len(part)) : SubSeq(s, i + 1, i + Len(part)) = part

\* String.prototype.localeCompare for texts of lower-case letters
RECURSIVE localeCompare(_, _)
localeCompare(a, b) ==
  LET rank(ch) == IF \E k \in DOMAIN LowerCase : LowerCase[k] = ch
                  THEN CHOOSE k \in DOMAIN LowerCase : LowerCase[k] = ch
                  ELSE 0
  IN IF a = <<>> /\ b = <<>> THEN 0
     ELSE IF a = <<>> THEN -1
     ELSE IF b = <<>> THEN 1
     ELSE IF rank(a[1]) # rank(b[1]) THEN rank(a[1]) - rank(b[1])
     ELSE localeCompare(Tail(a), Tail(b))

\* FlightFilters with no field given: an absent text is written <<>>, which
\* the tests of applyFilters treat as they treat the empty text
NoFilters ==
  [search |-> <<>>, airline |-> <<>>, dateFrom |-> <<>>, dateTo |-> <<>>,
   minDistance |-> {}, maxDistance |-> {}, class |-> {}, sortBy |-> {}, sortOrder |-> {}]

\* the test a record passes to stay in the result; the end of the local day of
\* dateTo lies between midnight UTC of that day and of the next in every zone
Passes(flight, filters) ==
  LET searchLower == ToLowerCase(filters.search)
      has(text) == Includes(ToLowerCase(text), searchLower)
  IN /\ filters.search # <<>> =>
          \/ has(flight.origin) \/ has(flight.destination)
          \/ has(flight.airline) \/ has(flight.flightNumber)
          \/ \E text \in flight.aircraft : has(text)
          \/ \E text \in flight.note : has(text)
     /\ filters.airline # <<>> => flight.airline = filters.airline
     /\ filters.dateFrom # <<>> =>
          \E d \in DateOf(flight.date), from \in DateOf(filters.dateFrom) : d >= from
     /\ filters.dateTo # <<>> =>
          \E d \in DateOf(flight.date), to \in DateOf(filters.dateTo) : d <= to
     /\ \A min \in filters.minDistance : DistanceOrZero(flight) >= min
     /\ \A max \in filters.maxDistance : DistanceOrZero(flight) <= max
     /\ filters.class # {} => flight.class = filters.class

\* the number the comparator of applyFilters returns, as sort reads it: NaN,
\* the difference of two times one of which is that of an Invalid Date, reads 0
Compare(filters, a, b) ==
  LET order == IF filters.sortOrder = {"asc"} THEN 1 ELSE -1
      dates(x, y) == IF DateOf(x.date) = {} \/ DateOf(y.date) = {} THEN 0
                     ELSE (CHOOSE d \in DateOf(x.date) : TRUE)
                          - (CHOOSE d \in DateOf(y.date) : TRUE)
  IN IF filters.sortBy = {} THEN dates(b, a)
     ELSE IF filters.sortBy = {"date"} THEN order * dates(a, b)
     ELSE IF filters.sortBy = {"distance"}
     THEN order * (DistanceOrZero(a) - DistanceOrZero(b))
     ELSE IF filters.sortBy = {"airline"} THEN order * localeCompare(a.airline, b.airline)
     ELSE IF filters.sortBy = {"created_at"} THEN order * (a.created_at - b.created_at)
     ELSE 0

Orderings(n) ==
  {p \in [1..n -> 1..n] : \A i, j \in 1..n : p[i] = p[j] => i = j}

\* the comparator of applyFilters is a consistent comparison function for the
\* elements of list
Consistent(list, filters) ==
  \A i, j, k \in DOMAIN list :
    LET ab == Compare(filters, list[i], list[j])
        ba == Compare(filters, list[j], list[i])
        bc == Compare(filters, list[j], list[k])
        ac == Compare(filters, list[i], list[k])
    IN /\ Compare(filters, list[i], list[i]) = 0
       /\ ab = 0 => ba = 0
       /\ ab < 0 => ba > 0
       /\ (ab = 0 /\ bc = 0) => ac = 0
       /\ (ab < 0 /\ bc < 0) => ac < 0
       /\ (ab > 0 /\ bc > 0) => ac > 0

\* filtered.sort(comparator): the stable order by a consistent comparison
\* function, and an order left to the engine by one that is not consistent
sort(list, filters) ==
  LET n == Len(list)
      before(x, y) == Compare(filters, list[x], list[y])
      stable == {p \in Orderings(n) :
                   \A i, j \in 1..n :
                     i < j => \/ before(p[i], p[j]) < 0
                              \/ before(p[i], p[j]) = 0 /\ p[i] < p[j]}
  IN {[i \in 1..n |-> list[p[i]]] :
        p \in IF Consistent(list, filters) THEN stable ELSE Orderings(n)}

\* applyFilters: the sequences it can return
applyFilters(list, filters) ==
  sort(SelectSeq(list, LAMBDA flight : Passes(flight, filters)), filters)

\* the forms of the records listed
ListForms(today) ==
  {FormDated(today),
   [FormDated(today) EXCEPT !.date = <<"x">>],
   [FormDated(today) EXCEPT !.airline = <<"s", "u">>, !.aircraft = <<"a", "3">>,
                            !.distance = <<"5">>, !.class = "business"]}

\* the FlightFilters given to applyFilters
ListFilters(today) ==
  {NoFilters,
   [NoFilters EXCEPT !.search = <<"T", "k">>],
   [NoFilters EXCEPT !.search = <<"A", "3">>],
   [NoFilters EXCEPT !.airline = <<"s", "u">>],
   [NoFilters EXCEPT !.dateFrom = toString(today)],
   [NoFilters EXCEPT !.dateTo = <<"0">>],
   [NoFilters EXCEPT !.dateTo = <<"x">>],
   [NoFilters EXCEPT !.minDistance = {1}],
   [NoFilters EXCEPT !.maxDistance = {0}],
   [NoFilters EXCEPT !.class = {"business"}, !.minDistance = {0}],
   [NoFilters EXCEPT !.sortBy = {"date"}, !.sortOrder = {"asc"}],
   [NoFilters EXCEPT !.sortBy = {"distance"}],
   [NoFilters EXCEPT !.sortBy = {"airline"}, !.sortOrder = {"asc"}],
   [NoFilters EXCEPT !.sortBy = {"created_at"}, !.sortOrder = {"desc"}]}

\* the store's addFlight, for the collection that is listed
ListAddFlight(form) ==
  /\ nextId <= MaxListed
  /\ LET res == storeAddFlight(flights, storeState, form, nextId, now, FALSE)
     IN /\ StoreCall("addFlight", <<form, FALSE>>, res)
        /\ nextId' = IF res.thrown = {} THEN nextId + 1 ELSE nextId
  /\ now' = now

\* applyFilters(localFlights, filters) in a render of App
ApplyFilters(filters) ==
  /\ \E result \in applyFilters(flights, filters) :
       storeCall' = [op |-> "applyFilters", arg |-> <<filters>>, at |-> now,
                     before |-> flights, state0 |-> storeState, thrown |-> {},
                     returned |-> result]
  /\ UNCHANGED <<store, userId, isMounted, connectionStatus, syncState, loading,
                 syncInProgress, pendingChangesRef, effectDue, timer, checks, calls, fastOps,
                 remote, now, sinceMutation, muts, mutsSince, dirty, burstN, offlineN, pulls,
                 faults, ev, adapter, storeState,
                 localStorage, launches>>

ListNext ==
  \/ \E form \in ListForms(now) : ListAddFlight(form)
  \/ \E filters \in ListFilters(now) : ApplyFilters(filters)
  \/ StoreTick

ListSpec == StoreInit /\ [][ListNext]_vars

(* ------------------------------- useUser -------------------------------- *)
\* the values uuidv4() and crypto.randomUUID() can return
Uuids == {OwnerA, OwnerB}

\* the user TelegramService.getUser() returns on this installation
TelegramId == "7"

OriginKinds == {"telegram", "anonymous", "standalone"}

\* localStorage.getItem(key): null, written {}, for a key never set
getItem(storage, key) == {entry[2] : entry \in {e \in storage : e[1] = key}}

\* localStorage.setItem(key, value)
setItem(storage, key, value) == {e \in storage : e[1] # key} \cup {<<key, value>>}

\* what a run of initializeUser gives: the user id and localStorage after it
Identity(id, storage) == [id |-> id, storage |-> storage]

\* useUser at lines 450-517; uuid: the value uuidv4() returns; throws: a call
\* inside try (TelegramService.getUser, localStorage) throws
useUser(storage, origin, uuid, throws) ==
  IF throws THEN Identity("fallback_" \o uuid, storage)
  ELSE IF origin = "telegram"
  THEN LET storageKey == "flightlog_user_id_" \o TelegramId
           persistentId == getItem(storage, storageKey)
       IN IF persistentId = {}
          THEN Identity(uuid, setItem(storage, storageKey, uuid))
          ELSE Identity(CHOOSE id \in persistentId : TRUE, storage)
  ELSE IF origin = "anonymous" THEN Identity("anon_" \o uuid, storage)
  ELSE Identity("dev_" \o uuid, storage)

\* UserHelper.generateUserId('dev_'): crypto.randomUUID() where the browser has
\* it, else the prefix and nine characters of Math.random().toString(36)
generateUserId(uuid, hasCrypto) == IF hasCrypto THEN uuid ELSE "dev_" \o "k3j9x0q2m"

\* UserHelper.getDevelopmentUserId
getDevelopmentUserId(storage, uuid, hasCrypto) ==
  LET key == "flight_tracker_dev_user_id"
      userId_ == getItem(storage, key)
  IN IF userId_ = {}
     THEN Identity(generateUserId(uuid, hasCrypto),
                   setItem(storage, key, generateUserId(uuid, hasCrypto)))
     ELSE Identity(CHOOSE id \in userId_ : TRUE, storage)

\* useUser at lines 526-584
useUserUuidOnly(storage, origin, uuid, hasCrypto, throws) ==
  IF throws THEN Identity(uuid, storage)
  ELSE IF origin \in {"telegram", "anonymous"} THEN Identity(uuid, storage)
  ELSE getDevelopmentUserId(storage, uuid, hasCrypto)

\* the ids produced so far: a random UUID is not drawn twice
Issued == {launches[i].id : i \in DOMAIN launches} \cup {e[2] : e \in localStorage}

\* the application is launched: useUser runs once; every launch of an
\* installation runs the same build
Launch(variant, origin, uuid, hasCrypto, throws) ==
  /\ Len(launches) < MaxLaunches
  /\ \A i \in DOMAIN launches : launches[i].variant = variant
  /\ \A id \in Issued : id # uuid /\ id # "anon_" \o uuid /\ id # "dev_" \o uuid
                        /\ id # "fallback_" \o uuid
  /\ LET res == IF variant = "useUser"
                THEN useUser(localStorage, origin, uuid, throws)
                ELSE useUserUuidOnly(localStorage, origin, uuid, hasCrypto, throws)
     IN /\ localStorage' = res.storage
        /\ launches' = Append(launches, [variant |-> variant, origin |-> origin,
                                         thrown |-> throws, id |-> res.id])
  /\ UNCHANGED <<store, userId, isMounted, connectionStatus, syncState, loading,
                 syncInProgress, pendingChangesRef, effectDue, timer, checks, calls, fastOps,
                 remote, now, sinceMutation, muts, mutsSince, dirty, burstN, offlineN, pulls,
                 faults, ev, adapter, storeState, storeCall>>

UserNext ==
  \E variant \in {"useUser", "useUserUuidOnly"}, origin \in OriginKinds, uuid \in Uuids,
     hasCrypto \in BOOLEAN, throws \in BOOLEAN :
       Launch(variant, origin, uuid, hasCrypto, throws)

UserInit == HookInit /\ remote = {}

UserSpec == UserInit /\ [][UserNext]_vars

(* ================================ claims ================================ *)
MutationOps == {"addFlight", "deleteFlight", "updateFlight"}

\* the step completed a call of saveToSupabase with success
PushSucceeded == ev.save = "ok" /\ ev.call.kind = "push"

\* the rows a push of snap for owner sends
PayloadRows(snap, owner) == {toSupabase(snap[k], owner) : k \in DOMAIN snap}

\* C1: whenever a reconcile push of X for an owner returns successfully, the remote
\* rows of that owner are exactly the rows of X, for every X (the empty collection
\* included) and every prior content of the remote table.
C1_RemoteMirrorsPayload ==
  PushSucceeded =>
    RowsOf(remote, ev.call.owner) = PayloadRows(ev.call.snap, ev.call.owner)

C3_OneSyncInFlight == Len(calls) <= 1

C3_Witness ==
  /\ ev.op \in {"forceSync", "timerFire", "retrySync", "initialize"}
  /\ ev.save = "dropped"
  /\ Len(calls) = 1
  /\ isMounted

C6_PendingCountsMutations == syncState.pendingChanges <= mutsSince

\* C7: after k >= 1 mutations made Offline, once connectivity is Online and until
\* a push is started or a further mutation is made, pendingChanges equals k.
C7_OfflineMutationsCounted ==
  (/\ isMounted
   /\ connectionStatus = "online"
   /\ offlineN >= 1
   /\ ~effectDue
   /\ ~syncState.isSyncing) =>
    syncState.pendingChanges = offlineN

\* C8: a local mutation made Online while a push is in flight is applied to the
\* local collection at once and, when the render it causes and its effects are
\* done, pendingChanges is one more than it was before the mutation.
C8_MutationDuringPushCounted ==
  (/\ ev.op \in MutationOps
   /\ isMounted
   /\ connectionStatus = "online"
   /\ syncState.isSyncing
   /\ \E i \in DOMAIN calls : calls[i].kind = "push"
   /\ ~effectDue) =>
    syncState.pendingChanges = ev.call.pend0 + 1

C10_ForceSyncOfflineNoOp ==
  (ev.op = "forceSync" /\ connectionStatus = "offline" /\ isMounted) =>
    ev.save \notin {"started", "ok"}

\* the step completed a connectivity probe that was not part of initialize or
\* retrySync, connectivity became Online by it and the effect of its render is due
WentOnline == ev.op = "checkConnection" /\ connectionStatus = "online" /\ effectDue

\* C11: a transition to Offline leaves pendingChanges, the timer and the
\* calls in flight as they were, and the auto-save effect that runs after a
\* transition to Online neither schedules a push nor changes SyncState.
C11_TransitionTouchesNothing ==
  /\ [][(connectionStatus # "offline" /\ connectionStatus' = "offline") =>
          /\ syncState'.pendingChanges = syncState.pendingChanges
          /\ timer' = timer
          /\ calls' = calls]_vars
  /\ [][(WentOnline /\ ev'.op = "autoSaveEffect") =>
          (timer' = timer /\ syncState' = syncState)]_vars

\* C12: with a known owner, whenever the connectivity is Online exactly one
\* pull (loadUserData) has been issued in the session: one at the first entry
\* into Online, at mount or after a period Offline, and never a second one.
\* (the probe started by initialize has been answered)
C12_OnePullOnceOnline ==
  (/\ userId # NoUser
   /\ connectionStatus = "online"
   /\ \A i \in DOMAIN checks : checks[i].kind # "init") => pulls = 1

\* C13: only the mutations of the store change the local collection: a pull,
\* a debounced push, forceSync, retrySync and clearError, succeeding or
\* failing, leave flights as it was.
C13_OnlyStoreWritesFlights ==
  [][flights' # flights => ev'.op \in MutationOps]_vars

\* a pull succeeded and returned rows of the owner while the store was empty
C13_Witness ==
  /\ ev.op = "loadFromSupabase" /\ ev.save = "pulled"
  /\ loadUserData(remote, ev.call.owner) # {}
  /\ flights = <<>>

\* C14: the payload of a push started by the debounce timer is the local
\* collection as it is when the timer fires, whatever happened between the
\* scheduling of the timer and its firing.
C14_TimerPushesCurrentFlights ==
  (ev.op = "timerFire" /\ ev.save = "started") => ev.call.snap = flights

\* C15: when addFlight runs while Online, the row handed to the single-insert
\* fast path is the row of the record just added to the local collection: it
\* has that record's id and its normalized fields.
C15_FastPathRowIsLocalRecord ==
  (/\ ev.op = "addFlight"
   /\ fastOps # <<>>
   /\ fastOps[Len(fastOps)].op = "insert")
    => fastOps[Len(fastOps)].row = toSupabase(flights[Len(flights)], userId)

\* C16: saveUserData is idempotent: when a call for an owner and a collection
\* resolves and the same call is made again and resolves, the second call
\* leaves the table as the first one left it.
C16_SaveTwiceIsSaveOnce ==
  (adapter.op = "saveUserData" /\ adapter.repeat) => remote = adapter.before

\* C17: a call of the adapter for one owner leaves the rows of every other
\* user as they were and returns none of them, whatever ids its arguments hold.
C17_OwnerIsolation ==
  adapter.op # "none" =>
    /\ {r \in remote : r.user_id # adapter.owner}
         = {r \in adapter.before : r.user_id # adapter.owner}
    /\ {f.id : f \in adapter.returned}
         \subseteq {r.id : r \in RowsOf(adapter.before, adapter.owner)}

\* C18: a call of the adapter with a user id that is not of UUID format throws
\* the format error, sends no request and leaves the table unchanged.
C18_BadIdFailsFast ==
  (adapter.op # "none" /\ ~validateUUID(adapter.owner)) =>
    /\ adapter.error = "format"
    /\ adapter.requests = 0
    /\ remote = adapter.before

\* C19: when the pull of initialize, a push started by the debounce timer or
\* the push of retrySync fails, SyncState has hasError with a message, and the
\* error is caught: it does not end as an unhandled promise rejection.
C19_BackgroundFailureIsHandled ==
  (/\ ev.save \in {"failed", "pullFailed"}
   /\ ev.call.by \in {"initialize", "timerFire", "retrySync"}
   /\ isMounted)
    => /\ syncState.hasError /\ syncState.errorMessage # {}
       /\ ThrowHandled(ev.call.by)

\* C20: while mounted, a pull whose request fails sets hasError with a message
\* and leaves lastSync as it was; a pull that succeeds with no rows sets no
\* error and sets lastSync; both leave the local collection unchanged.
C20_PullFailureIsNotEmptyResult ==
  [][(ev'.op = "loadFromSupabase" /\ isMounted) =>
       /\ flights' = flights
       /\ faults' # faults =>
            /\ syncState'.hasError /\ syncState'.errorMessage # {}
            /\ syncState'.lastSync = syncState.lastSync
       /\ (faults' = faults /\ loadUserData(remote, ev'.call.owner) = {}) =>
            /\ ~syncState'.hasError
            /\ syncState'.lastSync = {now}]_vars

\* C21: when a single-record call of the online fast path fails (transport
\* error, duplicate id, record not found), the step of the failure leaves the
\* local collection, with the mutation applied, as it is, and the error is
\* logged by the hook and not thrown to the caller of the operation.
C21_FastPathFailureStaysInside ==
  /\ []((ev.op = "fastPath" /\ ev.call.pc # "none") => ev.save = "logged")
  /\ [][(ev'.op = "fastPath" /\ ev'.call.pc # "none") => flights' = flights]_vars

\* updateFlight went to the service for a record the table does not hold
C21_Witness ==
  /\ ev.op = "fastPath" /\ ev.call.pc = "notFound"
  /\ ev.save = "logged"
  /\ flights # <<>>

\* the part of a text between its outer white space
Core(text) ==
  LET inner == {i \in DOMAIN text : text[i] \notin WhiteSpace}
  IN [k \in 1..Cardinality({i \in DOMAIN text :
                              \E a \in inner, b \in inner : a <= i /\ i <= b}) |->
        text[k + Cardinality({i \in DOMAIN text : \A a \in inner : i < a}) ]]

\* x is y with every lower-case letter replaced by its capital
UpperOf(x, y) ==
  /\ Len(x) = Len(y)
  /\ \A i \in DOMAIN x :
       /\ \A k \in DOMAIN LowerCase : x[i] # LowerCase[k]
       /\ \/ x[i] = y[i]
          \/ \E k \in DOMAIN LowerCase : y[i] = LowerCase[k] /\ x[i] = UpperCase[k]

\* n is the number written by the digits at the start of the text
ReadsAs(n, text) ==
  LET digits == toString(n)
  IN /\ Len(digits) <= Len(text)
     /\ SubSeq(text, 1, Len(digits)) = digits
     /\ Len(digits) < Len(text) => ~IsDigit(text[Len(digits) + 1])

\* the store's addFlight was given a form that passes validation
ValidAdd ==
  /\ storeCall.op = "addFlight"
  /\ validateFlightData(storeCall.arg[1], storeCall.at, storeCall.arg[2]) = <<>>

C23_InvalidFormIsRejected ==
  /\ (storeCall.op = "addFlight" /\ ~ValidAdd) =>
       /\ storeCall.thrown
            = {Join(validateFlightData(storeCall.arg[1], storeCall.at, storeCall.arg[2]))}
       /\ flights = storeCall.before
       /\ storeState.error = storeCall.thrown
  /\ (/\ storeCall.op = "addFlight"
      /\ \/ storeCall.arg[1].date = toString(storeCall.at + 1)
         \/ \E f \in {"origin", "destination", "airline", "flightNumber"} :
              \A i \in DOMAIN storeCall.arg[1][f] : storeCall.arg[1][f][i] = " "
         \/ storeCall.arg[1].date = <<>>)
     => storeCall.thrown # {} /\ flights = storeCall.before

\* a form dated tomorrow with a blank origin was given to a store holding a record
C23_Witness ==
  /\ storeCall.op = "addFlight"
  /\ storeCall.thrown = {MsgOrigin \o ", " \o MsgFuture}
  /\ storeCall.before # <<>>

\* C24: after deleteFlight(id) no record of the collection has that id and the
\* other records are there as before, in their order; deleteFlight with an id
\* the collection does not hold (deleted before, or never given out) throws
\* nothing and leaves the collection as it was.
C24_DeleteIsIdempotent ==
  storeCall.op = "deleteFlight" =>
    LET id == storeCall.arg[1]
        others == {i \in DOMAIN storeCall.before : storeCall.before[i].id # id}
    IN /\ id \notin IdsOf(flights)
       /\ Len(flights) = Cardinality(others)
       /\ \A i \in others :
            flights[Cardinality({j \in others : j <= i})] = storeCall.before[i]
       /\ storeCall.thrown = {}
       /\ id \notin IdsOf(storeCall.before) => flights = storeCall.before

\* deleteFlight was called with the id of a record deleted before, while the
\* collection holds another record
C24_Witness ==
  /\ storeCall.op = "deleteFlight"
  /\ storeCall.arg[1] < nextId
  /\ storeCall.arg[1] \notin IdsOf(storeCall.before)
  /\ storeCall.before # <<>>
  /\ flights = storeCall.before

\* C25: updateFlight with an id that no record of the collection has throws a
\* not-found error and leaves the collection as it was.
C25_UpdateOfAbsentIdFails ==
  (storeCall.op = "updateFlight" /\ storeCall.arg[1] \notin IdsOf(storeCall.before)) =>
    /\ storeCall.thrown # {}
    /\ flights = storeCall.before

\* C26: no two records of the collection have the same id, whatever addFlight,
\* updateFlight, deleteFlight and clearFlights calls were made.
C26_IdsAreUnique ==
  \A i \in DOMAIN flights, j \in DOMAIN flights : flights[i].id = flights[j].id => i = j

\* C27: a record keeps its created_at from the step that adds it to the step
\* that removes it: a step that keeps the record at its place keeps the value.
C27_CreatedAtNeverChanges ==
  [][\A i \in DOMAIN flights :
       (i \in DOMAIN flights' /\ flights'[i].id = flights[i].id)
         => flights'[i].created_at = flights[i].created_at]_vars

\* C28: clearFlights empties the collection when the user confirmed that call;
\* when the user did not (declined, or was not asked), the collection, the
\* selected flight and the error are as before the call.
C28_ClearNeedsConfirmation ==
  storeCall.op = "clearFlights" =>
    LET confirmed == storeCall.arg[2]
    IN /\ confirmed => flights = <<>>
       /\ ~confirmed =>
            /\ flights = storeCall.before
            /\ storeState.selectedFlight = storeCall.state0.selectedFlight
            /\ storeState.error = storeCall.state0.error

\* the sum of n times the number of records with distance n
RECURSIVE SumByDistance(_, _)
SumByDistance(list, values) ==
  IF values = {} THEN 0
  ELSE LET n == CHOOSE v \in values : TRUE
       IN n * Cardinality({i \in DOMAIN list : list[i].distance = {n}})
          + SumByDistance(list, values \ {n})

\* C29: calculateStatistics gives totalFlights = the number of records and
\* totalDistance = the sum of their distances, an absent distance adding
\* nothing; for no records every count is 0, mostFrequentAirlines is empty and
\* firstFlight, lastFlight, longestFlight and shortestFlight are absent.
C29_StatisticsCountAndSum ==
  storeCall.op = "calculateStatistics" =>
    LET list == storeCall.arg[1]
        stats == storeCall.returned[1]
    IN /\ stats.totalFlights = Len(list)
       /\ stats.totalDistance
            = SumByDistance(list, UNION {list[i].distance : i \in DOMAIN list})
       /\ list = <<>> =>
            /\ stats.totalFlights = 0 /\ stats.totalDistance = 0
            /\ stats.uniqueAirlines = 0 /\ stats.uniqueDestinations = 0
            /\ stats.mostFrequentAirlines = <<>>
            /\ stats.firstFlight = {} /\ stats.lastFlight = {}
            /\ stats.longestFlight = {} /\ stats.shortestFlight = {}

\* the statistics of two records, one with a distance and one without
C29_Witness ==
  /\ storeCall.op = "calculateStatistics"
  /\ Len(storeCall.arg[1]) = 2
  /\ \E i, j \in 1..2 : /\ storeCall.arg[1][i].distance = {}
                        /\ storeCall.arg[1][j].distance = {12}
  /\ storeCall.returned[1].totalDistance = 12

\* C30: loadUserData returns one record for every row of the owner; a row
\* whose class is null or not a FlightClass gives a record with class economy,
\* and a row whose reason is null or not a FlightReason gives a record
\* without reason.
C30_UnknownEnumsAreCoerced ==
  (adapter.op = "loadUserData" /\ validateUUID(adapter.owner) /\ adapter.requests = 1
     /\ adapter.error = "none" /\ adapter.returned # {})
    => \A row \in RowsOf(adapter.before, adapter.owner) :
         \E f \in adapter.returned :
           /\ f.id = row.id
           /\ row.class \cap ValidClasses = {} => f.class = {"economy"}
           /\ row.reason \cap ValidReasons = {} => f.reason = {}

\* C31: two launches of one installation with the same origin kind, neither
\* falling back after an exception, produce the same user id.
C31_SameIdOnLaterLaunch ==
  \A i \in DOMAIN launches, j \in DOMAIN launches :
    (launches[i].origin = launches[j].origin /\ ~launches[i].thrown /\ ~launches[j].thrown)
      => launches[i].id = launches[j].id

\* C32: the user id of every launch, of any origin kind and of the fallback
\* after an exception, passes validateUUID.
C32_UserIdIsUuid ==
  \A i \in DOMAIN launches : validateUUID(launches[i].id)

\* a step that sends a saveUserData request over the network
PushStarts ==
  /\ Len(calls') > Len(calls)
  /\ calls'[Len(calls')].kind = "push"

\* C33: unmounting cancels the pending debounce timer and no push starts once
\* the hook is unmounted; the calls in flight at unmount stay in flight.
C33_NoPushAfterUnmount ==
  [][/\ (~isMounted => ~PushStarts)
     /\ ((isMounted /\ ~isMounted') => (~timer'.set /\ calls' = calls /\ fastOps' = fastOps))]_vars

\* C34: addFlight given a form whose date is not empty and either is no calendar
\* date or is a day after today throws and stores nothing, so every stored
\* record has a date that reads as a day not after the day it was added.
C34_BadDateIsRejected ==
  /\ storeCall.op = "addFlight" =>
       LET date == storeCall.arg[1].date
       IN (/\ date # <<>>
           /\ \/ DateOf(date) = {}
              \/ \E day \in DateOf(date) : day > storeCall.at)
            => (storeCall.thrown # {} /\ flights = storeCall.before)
  /\ \A i \in DOMAIN flights :
       \E day \in DateOf(flights[i].date) : day <= flights[i].created_at

\* C35: applyFilters leaves the stored collection as it was; every record it
\* returns is a record of the collection that passes every test given, none
\* twice; with no sort key, of two returned records whose dates can be read
\* the one with the later date comes first.
C35_ApplyFiltersIsReadOnly ==
  storeCall.op = "applyFilters" =>
    LET filters == storeCall.arg[1]
        result == storeCall.returned
    IN /\ flights = storeCall.before
       /\ \A i \in DOMAIN result :
            /\ \E k \in DOMAIN flights : flights[k] = result[i]
            /\ Passes(result[i], filters)
            /\ \A j \in DOMAIN result : result[i].id = result[j].id => i = j
       /\ filters.sortBy = {} =>
            \A i, j \in DOMAIN result :
              i < j => \A d \in DateOf(result[i].date), e \in DateOf(result[j].date) : d >= e

\* no push in flight, no timeout pending, no pending change counted
Quiescent ==
  /\ \A i \in DOMAIN calls : calls[i].kind # "push"
  /\ ~timer.set
  /\ syncState.pendingChanges = 0

\* C36: when the app stays mounted, is Online from some moment on with the
\* owner known, and no push fails, then from some moment on no push is in
\* flight, no timeout is pending and pendingChanges is 0.
C36_Quiescence ==
  (/\ <>[](connectionStatus = "online" /\ userId # NoUser /\ isMounted)
   /\ [](ev.save # "failed"))
    => <>[]Quiescent

\* C37: when the app stays mounted, is Online from some moment on with the
\* owner known, and no network call fails, then from some moment on the rows of
\* the owner in the remote table are the rows of the local collection.
C37_EventualConsistency ==
  (/\ <>[](connectionStatus = "online" /\ userId # NoUser /\ isMounted)
   /\ [](faults = 0))
    => <>[](RowsOf(remote, userId) = PayloadRows(flights, userId))

C39_RoundTripKeepsRecord ==
  (storeCall.op = "addFlight" /\ storeCall.thrown = {}) =>
    LET flight == flights[Len(flights)]
        back == fromSupabase(toSupabase(flight, OwnerA))
    IN \A name \in DOMAIN flight \cup DOMAIN back :
         Property(back, name) = Property(flight, name)

\* C40: once the owner id is known and the app stays mounted, the loading flag
\* of the coordinator becomes false.
C40_LoadingEnds ==
  (userId # NoUser) ~> (~loading)

====
